---- MODULE Spec2Model ----
(***************************************************************************)
(* Session ledger (SessionKey) and x402 interceptor (x402Fetch) of the     *)
(* ACE session-key SDK.                                                    *)
(*                                                                         *)
(* Time is a discrete clock `now`.  sha256 is modelled as an injective     *)
(* constructor (no collisions); canonicalJson of an object is the record   *)
(* without its undefined members (TLA+ records carry no key order).        *)
(***************************************************************************)
EXTENDS Integers, Sequences, FiniteSets, TLC

(***************************************************************************)
(* Bounds of the model.                                                    *)
(***************************************************************************)
\* The clock runs over 0..MaxTime.
MaxTime == 2
\* Spend limits of a session are 1..MaxLimit (micro-USDC).
MaxLimit == 2
\* At most MaxPending attempts are pending at once.
MaxPending == 2
\* The origin issues at most MaxUuids challenges.
MaxUuids == 2
\* At most MaxInflight requests wait for the origin's ledger file at once.
MaxInflight == 2
\* A run makes at most MaxCalls calls of signForChallenge await by await.
MaxCalls == 3
\* cumulativeSpendMicrousdc is followed down to -MaxRefund.
MaxRefund == 1

(***************************************************************************)
(* Protocol constants                                                      *)
(***************************************************************************)
ACE_PAYMENT_VERSION == "ace-x402-v1"

USDC == "USDC"

\* The wallet of the session and its address as the wallet reports it.
WalletAddress == "0xAbC"

SessionId == "session-1"

(***************************************************************************)
(* Input domains                                                           *)
(***************************************************************************)
Versions == {ACE_PAYMENT_VERSION, "ace-x402-v0"}

Currencies == {USDC, "EUR"}

ChallengeIds == {"challenge-1", "challenge-2"}

\* Amounts a server may put into a challenge: nothing in the client checks
\* the sign of challenge.amountMicrousdc.
Amounts == {-1} \cup (1..MaxLimit)

ChallengeMethods == {"GET", "POST"}

ChallengeResources == {"/compute?task=test", "/other"}

Urls == {[origin |-> "https://example.com", pathname |-> "/compute", search |-> "?task=test"]}

NoBody == "undefined"

\* What the demo origin and the tests issue for the request of the model; it
\* outlives the clock.
BaseChallenge ==
  [version |-> ACE_PAYMENT_VERSION, challengeId |-> "challenge-1",
   resource |-> "/compute?task=test", method |-> "GET", amountMicrousdc |-> 1,
   currency |-> USDC, expiresAt |-> MaxTime + 1]

\* Challenges that pass the version, currency, method and resource checks.
GoodChallenges ==
  [version : {ACE_PAYMENT_VERSION}, challengeId : ChallengeIds,
   resource : {"/compute?task=test"}, method : {"GET"}, amountMicrousdc : Amounts,
   currency : {USDC}, expiresAt : {MaxTime + 1}]

\* BaseChallenge with a short life: it expires at time 1.
ShortChallenge == [BaseChallenge EXCEPT !.expiresAt = 1]

\* Challenges that differ from BaseChallenge in one checked field.
BadChallenges ==
  {[BaseChallenge EXCEPT !.version = v] : v \in Versions \ {ACE_PAYMENT_VERSION}}
  \cup {[BaseChallenge EXCEPT !.currency = c] : c \in Currencies \ {USDC}}
  \cup {[BaseChallenge EXCEPT !.method = m] : m \in ChallengeMethods \ {"GET"}}
  \cup {[BaseChallenge EXCEPT !.resource = r] : r \in ChallengeResources \ {"/compute?task=test"}}

Challenges == GoodChallenges \cup {ShortChallenge} \cup BadChallenges

\* A lower-case method without a body, an upper-case one with an empty body.
Requests ==
  {[method |-> "get", url |-> u, body |-> NoBody] : u \in Urls}
  \cup {[method |-> "GET", url |-> u, body |-> ""] : u \in Urls}

(***************************************************************************)
(* Pure helpers of session.ts                                              *)
(***************************************************************************)
\* String.prototype.toUpperCase / toLowerCase on the strings of the model.
ToUpperCase(s) ==
  CASE s = "get" -> "GET"
    [] s = "post" -> "POST"
    [] OTHER -> s

ToLowerCase(s) ==
  CASE s = "0xAbC" -> "0xabc"
    [] s = "0xDEf" -> "0xdef"
    [] s = "PAYMENT-SIGNATURE" -> "payment-signature"
    [] s = "X-PAYMENT" -> "x-payment"
    [] s = "Accept" -> "accept"
    [] OTHER -> s

\* sha256Hex of a string
sha256Hex(s) == "sha256(" \o s \o ")"

\* deriveResource: pathname + search of the parsed URL
deriveResource(url) == url.pathname \o url.search

\* `input.body ? sha256Hex(input.body) : ""`: undefined and "" are falsy
deriveRequestHash(input) ==
  [sha256 |->
    [bodyHash |-> IF input.body # NoBody /\ input.body # "" THEN sha256Hex(input.body) ELSE "",
     method |-> ToUpperCase(input.method),
     resource |-> deriveResource(input.url)]]

\* A member whose value is `undefined`, as in `{ ...challenge, mac: undefined }`
Undefined == [undefined |-> TRUE]

\* JSON.stringify leaves out the members whose value is undefined; sortDeep
\* only orders the keys, which a record does not have.  In the objects of
\* the model the optional member is the challenge's `mac`.
canonicalChallenge(challenge) ==
  IF "mac" \in DOMAIN challenge /\ challenge.mac = Undefined
  THEN [f \in DOMAIN challenge \ {"mac"} |-> challenge[f]]
  ELSE challenge

canonicalJson(value) ==
  IF "challenge" \in DOMAIN value
  THEN [value EXCEPT !.challenge = canonicalChallenge(@)]
  ELSE value

deriveChallengeHash(challenge) == [sha256 |-> canonicalChallenge(challenge)]

deriveIdempotencyKey(input) ==
  [aceid |->
    [amountMicrousdc |-> input.amountMicrousdc,
     challengeId |-> input.challengeId,
     payer |-> ToLowerCase(input.payer),
     requestHash |-> input.requestHash,
     sessionId |-> input.sessionId]]

\* `ACE_PAYMENT_V1\n${canonicalJson(payment)}`
buildPaymentSigningMessage(payment) ==
  [prefix |-> "ACE_PAYMENT_V1", payload |-> canonicalJson(payment)]

\* WalletSigner.signMessage: a signature names its signer and the message
signMessage(address, message) == [signer |-> address, message |-> message]

(***************************************************************************)
(* State                                                                   *)
(***************************************************************************)
VARIABLES
  state,   \* SessionKey.state: the SessionState held in memory
  store,   \* what SessionStore.load(SessionId) returns
  now,     \* the clock (new Date(), Date.now())
  last,    \* the last completed call on the session and what it did
  call,    \* the activation of x402Fetch: its position, locals and result
  origin,  \* the demo origin: its ledger, its files and its requests in flight
  disk,    \* the FileSessionStore's temp file and the session operation under way
  calls    \* the signForChallenge calls under way, the keys signed and committed

vars == <<state, store, now, last, call, origin, disk, calls>>

NoKey == [nokey |-> TRUE]

NoPayment == [nopayment |-> TRUE]

EmptyAttempts == [k \in {} |-> NoPayment]

\* The session lives for the whole clock but its last instant.
SessionTtl == MaxTime

Wallets == {WalletAddress, "0xDEf"}

RECURSIVE SumAmounts(_, _)
SumAmounts(attempts, keys) ==
  IF keys = {} THEN 0
  ELSE LET k == CHOOSE x \in keys : TRUE
       IN attempts[k].amountMicrousdc + SumAmounts(attempts, keys \ {k})

\* getSnapshot(): pendingSpendMicrousdc and availableSpendMicrousdc
pendingSpendMicrousdc(st) == SumAmounts(st.pendingAttempts, DOMAIN st.pendingAttempts)

availableSpendMicrousdc(st) ==
  st.spendLimitMicrousdc - st.cumulativeSpendMicrousdc - pendingSpendMicrousdc(st)

getSnapshot(st) ==
  [sessionId |-> st.sessionId,
   payer |-> st.payer,
   spendLimitMicrousdc |-> st.spendLimitMicrousdc,
   expiresAt |-> st.expiresAt,
   cumulativeSpendMicrousdc |-> st.cumulativeSpendMicrousdc,
   pendingSpendMicrousdc |-> pendingSpendMicrousdc(st),
   availableSpendMicrousdc |-> availableSpendMicrousdc(st)]

\* The SessionState that SessionKey.create persists for a new session id.
NewSessionState(payer, limit, createdAt, ttl) ==
  [sessionId |-> SessionId,
   payer |-> payer,
   spendLimitMicrousdc |-> limit,
   createdAt |-> createdAt,
   expiresAt |-> createdAt + ttl,
   cumulativeSpendMicrousdc |-> 0,
   pendingAttempts |-> EmptyAttempts]

\* The idempotency key signForChallenge derives for a challenge and a request.
AttemptKey(st, challenge, request) ==
  deriveIdempotencyKey(
    [sessionId |-> st.sessionId,
     payer |-> st.payer,
     challengeId |-> challenge.challengeId,
     requestHash |-> deriveRequestHash(
        [method |-> ToUpperCase(request.method), url |-> request.url, body |-> request.body]),
     amountMicrousdc |-> challenge.amountMicrousdc])

\* signCheck without the lookup of a pending attempt: every accepted call signs.
signCheck_NoLookup(st, challenge, request, t) ==
  IF t >= st.expiresAt THEN "SessionExpired"
  ELSE IF challenge.version # ACE_PAYMENT_VERSION THEN "UnsupportedVersion"
  ELSE IF challenge.currency # USDC THEN "UnsupportedCurrency"
  ELSE IF challenge.expiresAt <= t THEN "ChallengeExpired"
  ELSE IF challenge.method # ToUpperCase(request.method) THEN "MethodMismatch"
  ELSE IF challenge.resource # deriveResource(request.url) THEN "ResourceMismatch"
  ELSE IF challenge.amountMicrousdc > availableSpendMicrousdc(st) THEN "SpendLimitExceeded"
  ELSE "Signed"

\* signCheck without the spend-limit check.
signCheck_NoLimit(st, challenge, request, t) ==
  IF t >= st.expiresAt THEN "SessionExpired"
  ELSE IF challenge.version # ACE_PAYMENT_VERSION THEN "UnsupportedVersion"
  ELSE IF challenge.currency # USDC THEN "UnsupportedCurrency"
  ELSE IF challenge.expiresAt <= t THEN "ChallengeExpired"
  ELSE IF challenge.method # ToUpperCase(request.method) THEN "MethodMismatch"
  ELSE IF challenge.resource # deriveResource(request.url) THEN "ResourceMismatch"
  ELSE IF AttemptKey(st, challenge, request) \in DOMAIN st.pendingAttempts THEN "Existing"
  ELSE "Signed"

\* signCheck with the spend-limit check ahead of the lookup.
signCheck_LimitFirst(st, challenge, request, t) ==
  IF t >= st.expiresAt THEN "SessionExpired"
  ELSE IF challenge.version # ACE_PAYMENT_VERSION THEN "UnsupportedVersion"
  ELSE IF challenge.currency # USDC THEN "UnsupportedCurrency"
  ELSE IF challenge.expiresAt <= t THEN "ChallengeExpired"
  ELSE IF challenge.method # ToUpperCase(request.method) THEN "MethodMismatch"
  ELSE IF challenge.resource # deriveResource(request.url) THEN "ResourceMismatch"
  ELSE IF challenge.amountMicrousdc > availableSpendMicrousdc(st) THEN "SpendLimitExceeded"
  ELSE IF AttemptKey(st, challenge, request) \in DOMAIN st.pendingAttempts THEN "Existing"
  ELSE "Signed"

\* The checks of signForChallenge in their order: the error thrown, "Existing"
\* for the idempotent short-circuit, "Signed" when a new payment is signed.
signCheck(st, challenge, request, t) ==
  IF t >= st.expiresAt THEN "SessionExpired"
  ELSE IF challenge.version # ACE_PAYMENT_VERSION THEN "UnsupportedVersion"
  ELSE IF challenge.currency # USDC THEN "UnsupportedCurrency"
  ELSE IF challenge.expiresAt <= t THEN "ChallengeExpired"
  ELSE IF challenge.method # ToUpperCase(request.method) THEN "MethodMismatch"
  ELSE IF challenge.resource # deriveResource(request.url) THEN "ResourceMismatch"
  ELSE IF AttemptKey(st, challenge, request) \in DOMAIN st.pendingAttempts THEN "Existing"
  ELSE IF challenge.amountMicrousdc > availableSpendMicrousdc(st) THEN "SpendLimitExceeded"
  ELSE "Signed"

SignErrors ==
  {"SessionExpired", "UnsupportedVersion", "UnsupportedCurrency", "ChallengeExpired",
   "MethodMismatch", "ResourceMismatch", "SpendLimitExceeded"}

\* The UnsignedPayment built for a challenge at time t, and its signed form.
UnsignedPaymentFor(st, challenge, request, t) ==
  [version |-> ACE_PAYMENT_VERSION,
   sessionId |-> st.sessionId,
   payer |-> st.payer,
   challengeId |-> challenge.challengeId,
   challenge |-> challenge,
   idempotencyKey |-> AttemptKey(st, challenge, request),
   requestHash |-> deriveRequestHash(
      [method |-> ToUpperCase(request.method), url |-> request.url, body |-> request.body]),
   challengeHash |-> deriveChallengeHash(challenge),
   amountMicrousdc |-> challenge.amountMicrousdc,
   currency |-> challenge.currency,
   sessionExpiresAt |-> st.expiresAt,
   issuedAt |-> t]

SignedPaymentFor(st, challenge, request, t) ==
  LET unsigned == UnsignedPaymentFor(st, challenge, request, t)
  IN [field \in DOMAIN unsigned \cup {"signature"} |->
        IF field = "signature"
        THEN signMessage(WalletAddress, buildPaymentSigningMessage(unsigned))
        ELSE unsigned[field]]

\* { ...state, pendingAttempts: { ...pendingAttempts, [key]: payment } }
WithAttempt(st, key, payment) ==
  [st EXCEPT !.pendingAttempts =
     [k \in DOMAIN st.pendingAttempts \cup {key} |->
        IF k = key THEN payment ELSE st.pendingAttempts[k]]]

\* Object.fromEntries(Object.entries(pendingAttempts).filter(([k]) => k !== key))
WithoutAttempt(attempts, key) == [k \in DOMAIN attempts \ {key} |-> attempts[k]]

(***************************************************************************)
(* SessionKey operations.  The session is driven by one caller, so every   *)
(* call runs to completion (its store.save included) before the next.      *)
(***************************************************************************)
\* What a completed call reports: the operation, how it ended, the pending
\* attempt it repeated (signForChallenge called again with the challenge and the
\* request hash of an attempt still pending), the payment it returned, whether
\* wallet.signMessage and store.save were called.
Report(op, status, attempt, payment, walletSigned, storeSaved) ==
  [op |-> op, status |-> status, attempt |-> attempt, payment |-> payment,
   walletSigned |-> walletSigned, storeSaved |-> storeSaved]

\* The pending attempt that a call with this challenge and request repeats.
RepeatedAttempt(st, challenge, request) ==
  LET key == AttemptKey(st, challenge, request)
  IN IF key \in DOMAIN st.pendingAttempts /\ st.pendingAttempts[key].challenge = challenge
     THEN st.pendingAttempts[key]
     ELSE NoPayment

\* The state after signForChallenge with the given outcome of its checks.
signState(st, outcome, challenge, request, t) ==
  IF outcome = "Signed"
  THEN WithAttempt(st, AttemptKey(st, challenge, request),
                   SignedPaymentFor(st, challenge, request, t))
  ELSE st

\* What signForChallenge returns: the cached attempt verbatim, the new payment,
\* or nothing (it throws).
signReturn(st, outcome, challenge, request, t) ==
  CASE outcome = "Existing" -> st.pendingAttempts[AttemptKey(st, challenge, request)]
    [] outcome = "Signed" -> SignedPaymentFor(st, challenge, request, t)
    [] OTHER -> NoPayment

\* wallet.signMessage is reached only past every check.
signInvokesWallet(outcome) == outcome = "Signed"

\* this.persist() is reached only after a new attempt was inserted.
signPersists(outcome) == outcome = "Signed"

signReport(st, outcome, challenge, request, t) ==
  Report("signForChallenge", outcome,
         RepeatedAttempt(st, challenge, request),
         signReturn(st, outcome, challenge, request, t),
         signInvokesWallet(outcome), signPersists(outcome))

SignForChallenge(challenge, request) ==
  LET outcome == signCheck(state, challenge, request, now)
      next == signState(state, outcome, challenge, request, now)
  IN /\ outcome = "Signed" => Cardinality(DOMAIN state.pendingAttempts) < MaxPending
     /\ state' = next
     /\ store' = IF signPersists(outcome) THEN next ELSE store
     /\ last' = signReport(state, outcome, challenge, request, now)
     /\ UNCHANGED now

\* commitPayment that adds the amount but keeps the pending entry.
commitState_KeepsEntry(st, key) ==
  IF key \notin DOMAIN st.pendingAttempts THEN st
  ELSE [st EXCEPT
          !.cumulativeSpendMicrousdc = @ + st.pendingAttempts[key].amountMicrousdc]

\* The state after commitPayment(key).
commitState(st, key) ==
  IF key \notin DOMAIN st.pendingAttempts THEN st
  ELSE [st EXCEPT
          !.cumulativeSpendMicrousdc = @ + st.pendingAttempts[key].amountMicrousdc,
          !.pendingAttempts = WithoutAttempt(@, key)]

\* commitPayment that persists before looking the key up.
commitPersists_Always(st, key) == TRUE

\* commitPayment persists unless it returned early on an unknown key.
commitPersists(st, key) == key \in DOMAIN st.pendingAttempts

CommitPayment(key) ==
  /\ commitState(state, key).cumulativeSpendMicrousdc >= -MaxRefund
  /\ state' = commitState(state, key)
  /\ store' = IF commitPersists(state, key) THEN commitState(state, key) ELSE store
  /\ last' = Report("commitPayment", "ok", NoPayment, NoPayment, FALSE, commitPersists(state, key))
  /\ UNCHANGED now

\* releasePayment that counts the released amount as spent.
releaseState_Commits(st, key) ==
  IF key \notin DOMAIN st.pendingAttempts THEN st
  ELSE [st EXCEPT
          !.cumulativeSpendMicrousdc = @ + st.pendingAttempts[key].amountMicrousdc,
          !.pendingAttempts = WithoutAttempt(@, key)]

\* The state after releasePayment(key).
releaseState(st, key) ==
  IF key \notin DOMAIN st.pendingAttempts THEN st
  ELSE [st EXCEPT !.pendingAttempts = WithoutAttempt(@, key)]

\* releasePayment persists unless it returned early on an unknown key.
releasePersists(st, key) == key \in DOMAIN st.pendingAttempts

ReleasePayment(key) ==
  /\ state' = releaseState(state, key)
  /\ store' = IF releasePersists(state, key) THEN releaseState(state, key) ELSE store
  /\ last' = Report("releasePayment", "ok", NoPayment, NoPayment, FALSE, releasePersists(state, key))
  /\ UNCHANGED now

\* SessionKey.create on a session id the store already holds: the stored state
\* is returned as it is, unless ttlSeconds or the payer is rejected.
createCheck(stored, wallet, ttl) ==
  IF ttl <= 0 THEN "TtlNotPositive"
  ELSE IF stored.payer # ToLowerCase(wallet) THEN "DifferentPayer"
  ELSE "ok"

Create(wallet, limit, ttl) ==
  /\ state' = IF createCheck(store, wallet, ttl) = "ok" THEN store ELSE state
  /\ last' = Report("create", createCheck(store, wallet, ttl), NoPayment, NoPayment, FALSE, FALSE)
  /\ UNCHANGED <<store, now>>

\* Time passes between calls.
Tick ==
  /\ now < MaxTime
  /\ now' = now + 1
  /\ UNCHANGED <<state, store, last, call, origin, disk, calls>>

\* The keys a caller passes to commitPayment and releasePayment: the pending
\* ones, the key of the base challenge (pending or not) and a key of another
\* session.
ForeignKey ==
  deriveIdempotencyKey(
    [sessionId |-> "session-2",
     payer |-> WalletAddress,
     challengeId |-> "challenge-1",
     requestHash |-> deriveRequestHash(
        [method |-> "GET", url |-> CHOOSE u \in Urls : TRUE, body |-> NoBody]),
     amountMicrousdc |-> 1])

BaseKey ==
  AttemptKey(state, BaseChallenge,
             [method |-> "GET", url |-> CHOOSE u \in Urls : TRUE, body |-> NoBody])

CallerKeys == DOMAIN state.pendingAttempts \cup {BaseKey, ForeignKey}

SpendLimits == 1..MaxLimit

(***************************************************************************)
(* SessionKey on a FileSessionStore, one await at a time.  One caller      *)
(* drives the session: it starts an operation when the one before has      *)
(* returned.  The process may die at any await and the session be          *)
(* obtained again from the store.                                          *)
(***************************************************************************)
\* `${target}.tmp` does not exist / holds the serialized state
NoTemp == [present |-> FALSE]

TempOf(st) == [present |-> TRUE, state |-> st]

\* No operation under way.  `saving` is the state handed to store.save,
\* `completed` the in-memory state when the last operation returned, `before`
\* what the caller did before the operation under way or just returned.
IdleDisk(st) ==
  [pc |-> "idle", op |-> "none", payment |-> NoPayment, saving |-> st,
   temp |-> NoTemp, completed |-> st, before |-> "none"]

\* An operation is called.
Called(d) == [d EXCEPT !.before = last.op]

\* An operation has assigned this.state and calls this.persist().
Persisting(d, op, payment, st) ==
  [d EXCEPT !.pc = "mkdir", !.op = op, !.payment = payment, !.saving = st]

\* An operation returns.
Returned(d, st) ==
  [d EXCEPT !.pc = "idle", !.op = "none", !.payment = NoPayment, !.saving = st,
            !.completed = st]

\* signForChallenge up to `await this.wallet.signMessage(...)`, or to its
\* return when a check throws or the attempt is pending already.
StoreSignBegin(challenge, request) ==
  LET outcome == signCheck(state, challenge, request, now)
  IN /\ disk.pc = "idle"
     /\ outcome = "Signed" => Cardinality(DOMAIN state.pendingAttempts) < MaxPending
     /\ IF signInvokesWallet(outcome)
        THEN /\ disk' = [Called(disk) EXCEPT
                          !.pc = "signing", !.op = "signForChallenge",
                          !.payment = SignedPaymentFor(state, challenge, request, now)]
             /\ UNCHANGED last
        ELSE /\ disk' = Returned(Called(disk), state)
             /\ last' = signReport(state, outcome, challenge, request, now)
     /\ UNCHANGED <<state, store, now>>

\* The wallet has signed: the attempt is inserted and persist() is called.
StoreSigned ==
  /\ disk.pc = "signing"
  /\ state' = WithAttempt(state, disk.payment.idempotencyKey, disk.payment)
  /\ disk' = Persisting(disk, "signForChallenge", disk.payment, state')
  /\ UNCHANGED <<store, last, now>>

\* commitPayment up to `await this.persist()`, or to its early return.
StoreCommitBegin(key) ==
  /\ disk.pc = "idle"
  /\ state' = commitState(state, key)
  /\ IF commitPersists(state, key)
     THEN /\ disk' = Persisting(Called(disk), "commitPayment", NoPayment, state')
          /\ UNCHANGED last
     ELSE /\ disk' = Returned(Called(disk), state')
          /\ last' = Report("commitPayment", "ok", NoPayment, NoPayment, FALSE, FALSE)
  /\ UNCHANGED <<store, now>>

\* releasePayment up to `await this.persist()`, or to its early return.
StoreReleaseBegin(key) ==
  /\ disk.pc = "idle"
  /\ state' = releaseState(state, key)
  /\ IF releasePersists(state, key)
     THEN /\ disk' = Persisting(Called(disk), "releasePayment", NoPayment, state')
          /\ UNCHANGED last
     ELSE /\ disk' = Returned(Called(disk), state')
          /\ last' = Report("releasePayment", "ok", NoPayment, NoPayment, FALSE, FALSE)
  /\ UNCHANGED <<store, now>>

\* FileSessionStore.save: mkdir, then writeFile(temp, JSON.stringify(state))
StoreWrite ==
  /\ disk.pc = "mkdir"
  /\ disk' = [disk EXCEPT !.pc = "rename", !.temp = TempOf(disk.saving)]
  /\ UNCHANGED <<state, store, last, now>>

\* rename that leaves the target file as it was.
renamed_KeepsTarget(temp, target) == target

\* The target file after rename(temp, target).
renamed(temp, target) == temp.state

\* rename(temp, target), after which persist() and the operation return; the
\* operation throws when there is no temp file.
StoreRename ==
  /\ disk.pc = "rename"
  /\ IF disk.temp.present
     THEN /\ store' = renamed(disk.temp, store)
          /\ disk' = [Returned(disk, state) EXCEPT !.temp = NoTemp]
          /\ last' = Report(disk.op, "ok", NoPayment, disk.payment,
                            disk.op = "signForChallenge", TRUE)
     ELSE /\ disk' = Returned(disk, state)
          /\ last' = Report(disk.op, "ENOENT", NoPayment, NoPayment,
                            disk.op = "signForChallenge", FALSE)
          /\ UNCHANGED store
  /\ UNCHANGED <<state, now>>

\* SessionKey.restore: the payer of the stored state must be the wallet's.
restoreCheck(stored, wallet) ==
  IF stored.payer # ToLowerCase(wallet) THEN "DifferentPayer" ELSE "ok"

\* A session obtained anew that starts from a fresh state instead of the
\* stored one.
restoredState_Fresh(stored) ==
  NewSessionState(stored.payer, stored.spendLimitMicrousdc, stored.createdAt,
                  stored.expiresAt - stored.createdAt)

\* new SessionKey(wallet, store, existing)
restoredState(stored) == stored

\* The process stops, at an await or between operations, and a new process
\* obtains the session from the store: by restore, or by create with the
\* session id.  What was in memory is gone; the files stay.
StoreRestart(how, wallet, ttl) ==
  /\ IF how = "restore" THEN restoreCheck(store, wallet) = "ok"
                        ELSE createCheck(store, wallet, ttl) = "ok"
  /\ state' = restoredState(store)
  /\ disk' = [Called(disk) EXCEPT !.pc = "idle", !.op = "none", !.payment = NoPayment,
                                  !.saving = disk.completed]
  /\ last' = Report(how, "ok", NoPayment, NoPayment, FALSE, FALSE)
  /\ UNCHANGED <<store, now>>

\* The challenges and requests of the caller: two that fit the spend limit
\* together, one that expires at time 1; a GET without a body.
StoreChallenges ==
  {BaseChallenge, [BaseChallenge EXCEPT !.challengeId = "challenge-2"], ShortChallenge}

StoreRequests == {[method |-> "get", url |-> u, body |-> NoBody] : u \in Urls}

(***************************************************************************)
(* SessionKey.create and SessionKey.restore on a store that may be empty   *)
(***************************************************************************)
\* store.load(sessionId) returned null; no SessionKey was obtained yet.
NoSession == [absent |-> TRUE]

\* restore without the comparison of the payers.
bindCheck_AnyPayer(how, stored, wallet, ttl) ==
  IF how = "create" /\ ttl <= 0 THEN "TtlNotPositive"
  ELSE IF stored = NoSession
  THEN IF how = "create" THEN "created" ELSE "NoStoredSession"
  ELSE "ok"

\* How create and restore end: the error thrown, "created" for a fresh
\* state saved, "ok" for a SessionKey on the stored state.
bindCheck(how, stored, wallet, ttl) ==
  IF how = "create" /\ ttl <= 0 THEN "TtlNotPositive"
  ELSE IF stored = NoSession
  THEN IF how = "create" THEN "created" ELSE "NoStoredSession"
  ELSE IF how = "create" THEN createCheck(stored, wallet, ttl)
  ELSE restoreCheck(stored, wallet)

\* The state of the SessionKey the caller holds afterwards: the stored one, a
\* fresh one or, when the call threw, the one held before.
boundState(outcome, held, stored, wallet, limit, ttl, t) ==
  CASE outcome = "ok" -> stored
    [] outcome = "created" -> NewSessionState(ToLowerCase(wallet), limit, t, ttl)
    [] OTHER -> held

CreateSession(wallet, limit, ttl) ==
  LET outcome == bindCheck("create", store, wallet, ttl)
  IN /\ state' = boundState(outcome, state, store, wallet, limit, ttl, now)
     /\ store' = IF outcome = "created" THEN state' ELSE store
     /\ last' = Report("create", outcome, NoPayment, NoPayment, FALSE, outcome = "created")
     /\ UNCHANGED now

RestoreSession(wallet) ==
  LET outcome == bindCheck("restore", store, wallet, 0)
  IN /\ state' = boundState(outcome, state, store, wallet, 0, 0, now)
     /\ last' = Report("restore", outcome, NoPayment, NoPayment, FALSE, FALSE)
     /\ UNCHANGED <<store, now>>

\* The lifetimes a caller asks for: none, a short one, the whole clock.
BindTtls == {0, 1, SessionTtl}

(***************************************************************************)
(* What has happened to the idempotency keys of the session                *)
(***************************************************************************)
\* Nothing yet: no signForChallenge call under way, no key signed by the
\* wallet, no key committed, no attempt left pending by a process that died.
NoCalls == [inflight |-> <<>>, signatures |-> <<>>, commits |-> <<>>, crashed |-> {}]

\* How often the key was counted in a tally (signatures, commits).
CountOf(tally, key) == IF key \in DOMAIN tally THEN tally[key] ELSE 0

Counted(tally, key) ==
  [k \in DOMAIN tally \cup {key} |-> IF k = key THEN CountOf(tally, key) + 1 ELSE tally[k]]

\* signForChallenge, commitPayment and releasePayment as in Spec, with a
\* record of the keys committed.
AttemptSign(challenge, request) ==
  /\ SignForChallenge(challenge, request)
  /\ UNCHANGED calls

AttemptCommit(key) ==
  /\ CommitPayment(key)
  /\ calls' = IF key \in DOMAIN state.pendingAttempts
              THEN [calls EXCEPT !.commits = Counted(@, key)]
              ELSE calls

AttemptRelease(key) ==
  /\ ReleasePayment(key)
  /\ UNCHANGED calls

(***************************************************************************)
(* signForChallenge, one await at a time.  A call runs from its entry to   *)
(* `await wallet.signMessage`, from there to `await this.persist()`, and   *)
(* from there to its return; other calls may run in between.               *)
(***************************************************************************)
\* The call entered: the checks, and for a new attempt the payment built and
\* handed to the wallet.  The call waits for the signature, has returned the
\* pending attempt, or has thrown.
SignEnter(challenge, request) ==
  LET outcome == signCheck(state, challenge, request, now)
      activation ==
        [pc |-> CASE outcome = "Signed" -> "signing"
                  [] outcome = "Existing" -> "returned"
                  [] OTHER -> "threw",
         status |-> outcome,
         challenge |-> challenge,
         request |-> request,
         payment |-> signReturn(state, outcome, challenge, request, now),
         saving |-> NoSession]
  IN /\ Len(calls.inflight) < MaxCalls
     /\ calls' = [calls EXCEPT
          !.inflight = Append(@, activation),
          !.signatures = IF signInvokesWallet(outcome)
                         THEN Counted(@, AttemptKey(state, challenge, request))
                         ELSE @]
     /\ UNCHANGED <<state, store, now, last>>

\* The signature arrived: the payment is put into the pending attempts of the
\* state as it is now, and store.save is called with that state.
SignResume(i) ==
  LET activation == calls.inflight[i]
      next == WithAttempt(state, activation.payment.idempotencyKey, activation.payment)
  IN /\ activation.pc = "signing"
     /\ state' = next
     /\ calls' = [calls EXCEPT !.inflight[i].pc = "saving", !.inflight[i].saving = next]
     /\ UNCHANGED <<store, now, last>>

\* store.save completed: the call returns its payment.
SignSaved(i) ==
  LET activation == calls.inflight[i]
  IN /\ activation.pc = "saving"
     /\ store' = activation.saving
     /\ calls' = [calls EXCEPT !.inflight[i].pc = "returned"]
     /\ UNCHANGED <<state, now, last>>

\* store.save rejected (mkdir, writeFile or rename failed): persist() and the
\* call throw; this.state keeps the attempt it was given before the save.
SignSaveFails(i) ==
  LET activation == calls.inflight[i]
  IN /\ activation.pc = "saving"
     /\ calls' = [calls EXCEPT !.inflight[i].pc = "threw",
                               !.inflight[i].status = "SaveFailed"]
     /\ UNCHANGED <<state, store, now, last>>

\* No call is under way.
AllSettled == \A i \in DOMAIN calls.inflight : calls.inflight[i].pc \in {"returned", "threw"}

(***************************************************************************)
(* x402-interceptor.ts                                                     *)
(***************************************************************************)
X402_PAYMENT_REQUIRED_HEADER == "PAYMENT-REQUIRED"

X402_PAYMENT_SIGNATURE_HEADER == "PAYMENT-SIGNATURE"

\* Header values and bodies: absent, a text that is no base64 JSON, or the
\* base64 of the JSON of a value.
NoHeader == [absent |-> TRUE]

EmptyHeader == [text |-> ""]

GarbageHeader == [text |-> "not-base64-json"]

NoResponse == [noresponse |-> TRUE]

NoChallenge == [nochallenge |-> TRUE]

NoMethod == "undefined"

\* encodePaymentHeader / encodePaymentRequiredHeader: base64(utf8(JSON.stringify(v)))
\* Buffer.from(JSON.stringify(payment)).toString("base64")
encodePaymentHeader(payment) == [base64 |-> [json |-> canonicalJson(payment)]]

encodePaymentRequiredHeader(paymentRequired) == [base64 |-> [json |-> paymentRequired]]

\* JSON.parse(Buffer.from(value, "base64").toString("utf8")) returns a value
\* for the base64 of a JSON text and throws a SyntaxError for anything else.
IsBase64Json(value) == "base64" \in DOMAIN value

decodePaymentHeader(value) == value.base64.json

decodePaymentRequiredHeader(value) == value.base64.json

\* `if (header)`: null (absent) and "" are falsy.
Truthy(value) == value # NoHeader /\ value # EmptyHeader

\* Response.ok
ResponseOk(response) == response.status >= 200 /\ response.status <= 299

\* resolveMethod and resolveBody for a string input and its init
resolveMethod(init) == IF init.method # NoMethod THEN ToUpperCase(init.method) ELSE "GET"

resolveBody(init) == IF init.body = NoBody \/ init.body = "" THEN NoBody ELSE init.body

\* A test of the caller's headers that knows PAYMENT-SIGNATURE only.
CarriesPayment_SignatureOnly(init) ==
  \E name \in init.headers : ToLowerCase(name) = ToLowerCase(X402_PAYMENT_SIGNATURE_HEADER)

\* Headers.has(name), for the three names x402Fetch asks for; names compare
\* without case.
CarriesPayment(init) ==
  \E name \in init.headers :
    ToLowerCase(name) \in {ToLowerCase(X402_PAYMENT_SIGNATURE_HEADER),
                           ToLowerCase("X-PAYMENT"), "x-ace-payment"}

\* extractChallengeFromRequired: the first accepts[i].extra.challenge whose
\* version is ACE_PAYMENT_VERSION
IsAceChallenge(acceptance) ==
  /\ "extra" \in DOMAIN acceptance
  /\ "challenge" \in DOMAIN acceptance.extra
  /\ acceptance.extra.challenge.version = ACE_PAYMENT_VERSION

extractChallengeFromRequired(required) ==
  IF "accepts" \notin DOMAIN required \/ Len(required.accepts) = 0 THEN NoChallenge
  ELSE LET hits == {i \in 1..Len(required.accepts) : IsAceChallenge(required.accepts[i])}
       IN IF hits = {} THEN NoChallenge
          ELSE required.accepts[CHOOSE i \in hits : \A j \in hits : i <= j].extra.challenge

\* The challenge found in the PAYMENT-REQUIRED header, NoChallenge when the
\* header is absent, cannot be decoded or holds none.
HeaderChallenge(response) ==
  IF Truthy(response.paymentRequired) /\ IsBase64Json(response.paymentRequired)
  THEN extractChallengeFromRequired(decodePaymentRequiredHeader(response.paymentRequired))
  ELSE NoChallenge

\* extractChallenge: [kind |-> "challenge" | "none" | "throws", challenge]
extractChallenge(response) ==
  IF HeaderChallenge(response) # NoChallenge
  THEN [kind |-> "challenge", challenge |-> HeaderChallenge(response)]
  ELSE IF response.contentType # "application/json"
  THEN [kind |-> "none", challenge |-> NoChallenge]
  ELSE IF "json" \notin DOMAIN response.body
  THEN [kind |-> "throws", challenge |-> NoChallenge]
  ELSE IF "challenge" \notin DOMAIN response.body.json
          \/ response.body.json.challenge.version # ACE_PAYMENT_VERSION
  THEN [kind |-> "none", challenge |-> NoChallenge]
  ELSE [kind |-> "challenge", challenge |-> response.body.json.challenge]

\* x402Fetch that takes every response but a 200 for a payment request.
PaymentRequired_Not200(response) == response.status # 200

\* `firstResponse.status !== 402` is the only test of the first response
PaymentRequired(response) == response.status = 402

(***************************************************************************)
(* What the transport answers                                              *)
(***************************************************************************)
Response(nth, status, paymentRequired, contentType, body, paymentSignature) ==
  [nth |-> nth, status |-> status, paymentRequired |-> paymentRequired,
   contentType |-> contentType, body |-> body, paymentSignature |-> paymentSignature]

Acceptance(challenge) == [scheme |-> "exact", extra |-> [challenge |-> challenge]]

Required(accepts) == [x402Version |-> 2, error |-> "payment_required", accepts |-> accepts]

ChallengeBody(challenge) == [json |-> [error |-> "payment_required", challenge |-> challenge]]

OldChallenge == [BaseChallenge EXCEPT !.version = "ace-x402-v0"]

\* The challenges the origin of the interceptor runs issues: the base one, one
\* for the whole spend limit, a short-lived one and one for another method.
FetchChallenges ==
  {BaseChallenge,
   [BaseChallenge EXCEPT !.challengeId = "challenge-2", !.amountMicrousdc = MaxLimit],
   ShortChallenge,
   [BaseChallenge EXCEPT !.method = "POST"]}

\* 402 responses as the origin builds them: the challenge in the header and
\* in the JSON body.
OriginResponses ==
  {Response(1, 402, encodePaymentRequiredHeader(Required(<<Acceptance(c)>>)),
            "application/json", ChallengeBody(c), NoHeader) : c \in FetchChallenges}

\* Other 402 responses: the challenge only in the body, behind an undecodable
\* or empty header, after an entry of another version, differing between header
\* and body, or nowhere.
OtherResponses ==
  {Response(1, 402, NoHeader, "application/json", ChallengeBody(BaseChallenge), NoHeader),
   Response(1, 402, GarbageHeader, "application/json", ChallengeBody(BaseChallenge), NoHeader),
   Response(1, 402, encodePaymentRequiredHeader(Required(<<>>)),
            "application/json", ChallengeBody(BaseChallenge), NoHeader),
   Response(1, 402,
            encodePaymentRequiredHeader(
              Required(<<[scheme |-> "exact"], Acceptance(OldChallenge), Acceptance(BaseChallenge)>>)),
            "text/plain", [text |-> "payment required"], NoHeader),
   Response(1, 402, encodePaymentRequiredHeader(Required(<<Acceptance(BaseChallenge)>>)),
            "application/json",
            ChallengeBody([BaseChallenge EXCEPT !.challengeId = "challenge-2"]), NoHeader),
   Response(1, 402, NoHeader, "text/plain", ChallengeBody(BaseChallenge), NoHeader),
   Response(1, 402, NoHeader, "application/json", [text |-> "payment required"], NoHeader),
   Response(1, 402, NoHeader, "application/json", [json |-> [error |-> "payment_required"]],
            NoHeader),
   Response(1, 402, encodePaymentRequiredHeader(Required(<<Acceptance(OldChallenge)>>)),
            "application/json", ChallengeBody(OldChallenge), NoHeader)}

\* Responses with another status, one of them carrying a challenge all the same.
PlainResponses ==
  {Response(1, status, NoHeader, "application/json", [json |-> [status |-> "ok"]], NoHeader) :
     status \in {200, 500}}
  \cup {Response(1, 500, encodePaymentRequiredHeader(Required(<<Acceptance(BaseChallenge)>>)),
                 "application/json", ChallengeBody(BaseChallenge), NoHeader)}

FirstResponses == OriginResponses \cup OtherResponses \cup PlainResponses

\* A payment of another session.
ForeignPayment == [idempotencyKey |-> ForeignKey, sessionId |-> "session-2"]

\* What a retry response may carry as PAYMENT-SIGNATURE: nothing, an empty or
\* undecodable value, the header of the retry request (the origin's echo), or
\* the encoding of another payment or of a JSON object that is no payment.
EchoHeaders(signed, attempts) ==
  {NoHeader, EmptyHeader, GarbageHeader, encodePaymentHeader(signed),
   encodePaymentHeader(ForeignPayment), encodePaymentHeader([status |-> "ok"])}
  \cup {encodePaymentHeader(attempts[k]) : k \in DOMAIN attempts}

RetryResponses(signed, attempts) ==
  {Response(2, 200, NoHeader, "application/json", [json |-> [status |-> "ok"]], h) :
     h \in EchoHeaders(signed, attempts)}
  \cup {Response(2, status, NoHeader, "text/plain", [text |-> "upstream error"], NoHeader) :
          status \in {402, 500}}

TransportThrows == [throws |-> "network down"]

\* What the caller passes: a string URL and an init.
Inits ==
  {[method |-> "get", url |-> u, body |-> NoBody, headers |-> {}] : u \in Urls}
  \cup {[method |-> NoMethod, url |-> u, body |-> "", headers |-> {"Accept"}] : u \in Urls}
  \cup {[method |-> "get", url |-> u, body |-> NoBody, headers |-> {h}] :
          u \in Urls, h \in {"payment-signature", "X-PAYMENT", "x-ace-payment"}}

(***************************************************************************)
(* x402Fetch, one step per transport call and one for signForChallenge     *)
(***************************************************************************)
IdleCall ==
  [pc |-> "idle",
   request |-> [method |-> "GET", url |-> CHOOSE u \in Urls : TRUE, body |-> NoBody],
   first |-> NoResponse, challenge |-> NoChallenge, signed |-> NoPayment,
   retry |-> NoResponse, fetchCalls |-> 0, signCalls |-> 0, commitCalls |-> 0,
   releaseCalls |-> 0, commitKey |-> NoKey, releaseKey |-> NoKey,
   returned |-> NoResponse, thrown |-> "none"]

\* x402Fetch ends by returning a response or by throwing.
Returns(c, response) == [c EXCEPT !.pc = "done", !.returned = response]

Throws(c, error) == [c EXCEPT !.pc = "done", !.thrown = error]

\* From the call of x402Fetch to the call of signForChallenge: the first
\* transport call, the 402 test, the caller's payment headers, extractChallenge.
afterFirst(init, answer) ==
  LET started == [IdleCall EXCEPT
                    !.request = [method |-> resolveMethod(init), url |-> init.url,
                                 body |-> resolveBody(init)],
                    !.fetchCalls = 1]
  IN IF answer = TransportThrows THEN Throws(started, "transport-1")
     ELSE LET got == [started EXCEPT !.first = answer]
          IN IF ~PaymentRequired(answer) THEN Returns(got, answer)
             ELSE IF CarriesPayment(init) THEN Returns(got, answer)
             ELSE IF extractChallenge(answer).kind = "throws" THEN Throws(got, "body-json")
             ELSE IF extractChallenge(answer).kind = "none" THEN Returns(got, answer)
             ELSE [got EXCEPT !.pc = "challenged",
                              !.challenge = extractChallenge(answer).challenge]

FetchFirst(init, answer) ==
  /\ call.pc \in {"idle", "done"}
  /\ call' = afterFirst(init, answer)
  /\ UNCHANGED <<state, store, last, now>>

\* x402Fetch that answers a refused signature with the 402 it got.
afterSign_Swallows(c, outcome, payment) ==
  IF outcome \in SignErrors
  THEN Returns([c EXCEPT !.signCalls = @ + 1], c.first)
  ELSE [c EXCEPT !.pc = "signed", !.signCalls = @ + 1, !.signed = payment]

\* await sessionKey.signForChallenge(challenge, {method, url, body})
afterSign(c, outcome, payment) ==
  IF outcome \in SignErrors
  THEN Throws([c EXCEPT !.signCalls = @ + 1], outcome)
  ELSE [c EXCEPT !.pc = "signed", !.signCalls = @ + 1, !.signed = payment]

FetchSign ==
  /\ call.pc = "challenged"
  /\ SignForChallenge(call.challenge, call.request)
  /\ call' = afterSign(call, signCheck(state, call.challenge, call.request, now),
                       signReturn(state, signCheck(state, call.challenge, call.request, now),
                                  call.challenge, call.request, now))

\* x402Fetch that commits whatever the retry answers.
settle_CommitsAlways(answer) ==
  IF answer = TransportThrows THEN "release-throw"
  ELSE IF Truthy(answer.paymentSignature)
       THEN IF IsBase64Json(answer.paymentSignature) THEN "commit-echo" ELSE "decode-throw"
       ELSE "commit-signed"

\* What x402Fetch does with the outcome of the retry: "release-throw",
\* "commit-echo", "decode-throw", "commit-signed" or "release-return".
settle(answer) ==
  IF answer = TransportThrows THEN "release-throw"
  ELSE IF ResponseOk(answer)
  THEN IF Truthy(answer.paymentSignature)
       THEN IF IsBase64Json(answer.paymentSignature) THEN "commit-echo" ELSE "decode-throw"
       ELSE "commit-signed"
  ELSE "release-return"

\* echoedPayment.idempotencyKey: undefined when the JSON holds no such member
EchoedKey(answer) ==
  IF "idempotencyKey" \in DOMAIN decodePaymentHeader(answer.paymentSignature)
  THEN decodePaymentHeader(answer.paymentSignature).idempotencyKey
  ELSE NoKey

Committed(c, key) == [c EXCEPT !.commitCalls = @ + 1, !.commitKey = key]

Released(c, key) == [c EXCEPT !.releaseCalls = @ + 1, !.releaseKey = key]

\* The retry and what follows it.
FetchRetry(answer) ==
  LET sent == [call EXCEPT !.fetchCalls = @ + 1,
                           !.retry = IF answer = TransportThrows THEN NoResponse ELSE answer]
      key == call.signed.idempotencyKey
  IN /\ call.pc = "signed"
     /\ CASE settle(answer) = "release-throw" ->
               /\ ReleasePayment(key)
               /\ call' = Throws(Released(sent, key), "transport-2")
          [] settle(answer) = "release-return" ->
               /\ ReleasePayment(key)
               /\ call' = Returns(Released(sent, key), answer)
          [] settle(answer) = "commit-signed" ->
               /\ CommitPayment(key)
               /\ call' = Returns(Committed(sent, key), answer)
          [] settle(answer) = "commit-echo" ->
               /\ CommitPayment(EchoedKey(answer))
               /\ call' = Returns(Committed(sent, EchoedKey(answer)), answer)
          [] settle(answer) = "decode-throw" ->
               /\ call' = Throws(sent, "echo-decode")
               /\ UNCHANGED <<state, store, last, now>>

(***************************************************************************)
(* The demo origin (demo-compute-api): configuration, challenges and the   *)
(* verification of a payment                                               *)
(***************************************************************************)
X402_PAYMENT_RESPONSE_HEADER == "PAYMENT-RESPONSE"

X402_VERSION == 2

\* parseConfig(): the price, the secret of the challenge MAC and the life
\* of a challenge, in the units of the model.
config ==
  [amountMicrousdc |-> 1,
   challengeSecret |-> "ace_phase0_demo_secret",
   challengeTtlSeconds |-> 1]

\* createHmac("sha256", secret).update(message).digest("hex"): a MAC names its
\* secret and its message
hmac(secret, message) == [hmac |-> [secret |-> secret, message |-> message]]

\* { ...challenge, mac: undefined } under canonicalJson: the member is dropped
WithoutMac(challenge) == [f \in DOMAIN challenge \ {"mac"} |-> challenge[f]]

createChallenge(input) ==
  LET challengeBase ==
        [version |-> ACE_PAYMENT_VERSION,
         challengeId |-> input.challengeId,
         resource |-> input.resource,
         method |-> ToUpperCase(input.method),
         amountMicrousdc |-> input.amountMicrousdc,
         currency |-> USDC,
         issuedAt |-> input.issuedAt,
         expiresAt |-> input.expiresAt,
         nonce |-> input.nonce]
  IN [f \in DOMAIN challengeBase \cup {"mac"} |->
        IF f = "mac" THEN hmac(input.secret, challengeBase) ELSE challengeBase[f]]

verifyChallenge(challenge, secret) ==
  /\ "mac" \in DOMAIN challenge
  /\ hmac(secret, WithoutMac(challenge)) = challenge.mac

\* buildChallengeForRequest, the n-th randomUUID() giving the id and the nonce
buildChallengeForRequest(resource, method, t, n) ==
  createChallenge(
    [secret |-> config.challengeSecret,
     challengeId |-> "challenge-" \o ToString(n),
     resource |-> resource,
     method |-> method,
     amountMicrousdc |-> config.amountMicrousdc,
     issuedAt |-> t,
     expiresAt |-> t + config.challengeTtlSeconds,
     nonce |-> "nonce-" \o ToString(n)])

buildPaymentRequiredHeaderValue(challenge) ==
  encodePaymentRequiredHeader(
    [x402Version |-> X402_VERSION,
     error |-> "payment_required",
     accepts |-> <<[scheme |-> "exact", network |-> "eip155:84532",
                    amount |-> ToString(challenge.amountMicrousdc), asset |-> USDC,
                    payTo |-> "ace:phase0:compute-api",
                    extra |-> [challenge |-> challenge]]>>])

\* toUnsignedPayment: the payment without its signature
toUnsignedPayment_KeepsSignature(payment) == payment

toUnsignedPayment(payment) == [f \in DOMAIN payment \ {"signature"} |-> payment[f]]

\* ethers verifyMessage: the signer of the signature when it signs this very
\* message, some other address otherwise
verifyMessage(message, signature) ==
  IF signature.message = message THEN signature.signer ELSE "0xUnrelated"

\* validateSignedPayment without the test of the signature.
validateSignedPayment_NoSignature(payment, expectedResource, expectedMethod, requestHash, t) ==
  IF payment.version # ACE_PAYMENT_VERSION THEN "Unsupported payment version"
  ELSE IF payment.currency # USDC THEN "Unsupported payment currency"
  ELSE IF payment.challengeId # payment.challenge.challengeId THEN "challengeId mismatch"
  ELSE IF payment.challenge.resource # expectedResource THEN "Challenge resource mismatch"
  ELSE IF payment.challenge.method # expectedMethod THEN "Challenge method mismatch"
  ELSE IF payment.challengeHash # deriveChallengeHash(payment.challenge)
  THEN "challengeHash mismatch"
  ELSE IF payment.requestHash # requestHash THEN "requestHash mismatch"
  ELSE IF ~verifyChallenge(payment.challenge, config.challengeSecret)
  THEN "Challenge MAC verification failed"
  ELSE IF payment.challenge.expiresAt <= t THEN "Challenge expired"
  ELSE IF deriveIdempotencyKey(
            [sessionId |-> payment.sessionId, payer |-> payment.payer,
             challengeId |-> payment.challenge.challengeId,
             requestHash |-> payment.requestHash,
             amountMicrousdc |-> payment.amountMicrousdc]) # payment.idempotencyKey
  THEN "Invalid idempotency key"
  ELSE IF payment.amountMicrousdc # config.amountMicrousdc THEN "Incorrect payment amount"
  ELSE IF payment.sessionExpiresAt <= t THEN "Session expired"
  ELSE "ok"

\* validateSignedPayment: the message of the first failing step, "ok" if none
validateSignedPayment(payment, expectedResource, expectedMethod, requestHash, t) ==
  IF payment.version # ACE_PAYMENT_VERSION THEN "Unsupported payment version"
  ELSE IF payment.currency # USDC THEN "Unsupported payment currency"
  ELSE IF payment.challengeId # payment.challenge.challengeId THEN "challengeId mismatch"
  ELSE IF payment.challenge.resource # expectedResource THEN "Challenge resource mismatch"
  ELSE IF payment.challenge.method # expectedMethod THEN "Challenge method mismatch"
  ELSE IF payment.challengeHash # deriveChallengeHash(payment.challenge)
  THEN "challengeHash mismatch"
  ELSE IF payment.requestHash # requestHash THEN "requestHash mismatch"
  ELSE IF ~verifyChallenge(payment.challenge, config.challengeSecret)
  THEN "Challenge MAC verification failed"
  ELSE IF payment.challenge.expiresAt <= t THEN "Challenge expired"
  ELSE IF deriveIdempotencyKey(
            [sessionId |-> payment.sessionId, payer |-> payment.payer,
             challengeId |-> payment.challenge.challengeId,
             requestHash |-> payment.requestHash,
             amountMicrousdc |-> payment.amountMicrousdc]) # payment.idempotencyKey
  THEN "Invalid idempotency key"
  ELSE IF payment.amountMicrousdc # config.amountMicrousdc THEN "Incorrect payment amount"
  ELSE IF payment.sessionExpiresAt <= t THEN "Session expired"
  ELSE IF ToLowerCase(verifyMessage(buildPaymentSigningMessage(toUnsignedPayment(payment)),
                                    payment.signature)) # ToLowerCase(payment.payer)
  THEN "Signature does not match payer"
  ELSE "ok"

(***************************************************************************)
(* The demo origin: the request handler and the payment ledger             *)
(***************************************************************************)
EmptyRecords == <<>>

\* A file that does not exist, and the ledger file holding the given records.
NoFile == [present |-> FALSE, records |-> EmptyRecords]

FileOf(records) == [present |-> TRUE, records |-> records]

NoReply == [noreply |-> TRUE]

\* The origin at start(): an empty ledger, no file, no request in flight.
\* `work` counts the executions of the compute work, `issued` holds the
\* challenges sent out in 402 responses, `reply` the last answer given.
InitOrigin ==
  [records |-> EmptyRecords, file |-> NoFile, temp |-> NoFile,
   inflight |-> EmptyRecords, work |-> 0, issued |-> {}, uuids |-> 0,
   reply |-> NoReply]

\* request.headers[...] ?? request.headers["x-payment"] ?? request.headers["x-ace-payment"]
paymentSignatureHeader(request) ==
  IF ToLowerCase(X402_PAYMENT_SIGNATURE_HEADER) \in DOMAIN request.headers
  THEN request.headers[ToLowerCase(X402_PAYMENT_SIGNATURE_HEADER)]
  ELSE IF "x-payment" \in DOMAIN request.headers THEN request.headers["x-payment"]
  ELSE IF "x-ace-payment" \in DOMAIN request.headers THEN request.headers["x-ace-payment"]
  ELSE NoHeader

\* deriveRequestHash({ method, url }): the origin passes no body
originRequestHash(request) ==
  deriveRequestHash([method |-> ToUpperCase(request.method), url |-> request.url, body |-> NoBody])

\* The error thrown inside the handler's try block before the ledger is looked
\* at, "ok" if none.
handlerError(request, t) ==
  IF ~IsBase64Json(paymentSignatureHeader(request)) THEN "SyntaxError"
  ELSE validateSignedPayment(decodePaymentHeader(paymentSignatureHeader(request)),
                             deriveResource(request.url), ToUpperCase(request.method),
                             originRequestHash(request), t)

\* The ledger lookup answers a conflict whenever the key is known.
isConflict_Always(existing, payment) == TRUE

\* The test of the record found in the ledger against the payment
isConflict(existing, payment) ==
  \/ existing.payer # ToLowerCase(payment.payer)
  \/ existing.amountMicrousdc # payment.amountMicrousdc
  \/ existing.requestHash # payment.requestHash

\* A handler that never looks a key up in the ledger.
route_NoLookup(request, records, t) ==
  IF request.url.pathname # "/compute" THEN "not_found"
  ELSE IF ~Truthy(paymentSignatureHeader(request)) THEN "payment_required"
  ELSE IF handlerError(request, t) # "ok" THEN "invalid_payment"
  ELSE "new"

\* The branch the handler takes for a request.
route(request, records, t) ==
  IF request.url.pathname # "/compute" THEN "not_found"
  ELSE IF ~Truthy(paymentSignatureHeader(request)) THEN "payment_required"
  ELSE IF handlerError(request, t) # "ok" THEN "invalid_payment"
  ELSE LET payment == decodePaymentHeader(paymentSignatureHeader(request))
       IN IF payment.idempotencyKey \notin DOMAIN records THEN "new"
          ELSE IF isConflict(records[payment.idempotencyKey], payment) THEN "conflict"
          ELSE "replay"

\* The PaymentLogRecord of a new payment; the n-th execution of the work draws
\* the n-th computeId.
recordOf(request, payment, t, n) ==
  [idempotencyKey |-> payment.idempotencyKey,
   payer |-> ToLowerCase(payment.payer),
   amountMicrousdc |-> payment.amountMicrousdc,
   requestHash |-> payment.requestHash,
   challengeId |-> payment.challengeId,
   paidAt |-> t,
   result |-> [computeId |-> "compute-" \o ToString(n),
               output |-> "computed:" \o request.url.search \o ":ok"]]

\* sendJson(response, statusCode, payload, headers)
sendJson(statusCode, payload, headers) ==
  [status |-> statusCode, contentType |-> "application/json", body |-> [json |-> payload],
   paymentRequired |->
     IF X402_PAYMENT_REQUIRED_HEADER \in DOMAIN headers
     THEN headers[X402_PAYMENT_REQUIRED_HEADER] ELSE NoHeader,
   paymentSignature |->
     IF X402_PAYMENT_SIGNATURE_HEADER \in DOMAIN headers
     THEN headers[X402_PAYMENT_SIGNATURE_HEADER] ELSE NoHeader,
   paymentResponse |->
     IF X402_PAYMENT_RESPONSE_HEADER \in DOMAIN headers
     THEN headers[X402_PAYMENT_RESPONSE_HEADER] ELSE NoHeader,
   idempotencyKeyHeader |->
     IF "x-ace-idempotency-key" \in DOMAIN headers
     THEN headers["x-ace-idempotency-key"] ELSE NoHeader]

NoHeaders == [h \in {} |-> NoHeader]

\* The 200 answer that echoes a header the request did not carry.
paidResponse_NoEcho(existing, replayed, header) ==
  sendJson(200,
    [status |-> "ok", replayed |-> replayed, result |-> existing.result,
     payment |-> [idempotencyKey |-> existing.idempotencyKey,
                  amountMicrousdc |-> existing.amountMicrousdc]],
    (X402_PAYMENT_SIGNATURE_HEADER :> GarbageHeader)
    @@ (X402_PAYMENT_RESPONSE_HEADER :>
          [base64 |-> [json |-> [x402Version |-> X402_VERSION, settled |-> TRUE,
                                 idempotencyKey |-> existing.idempotencyKey]]])
    @@ ("x-ace-idempotency-key" :> existing.idempotencyKey))

\* The 200 answer for a record, new or replayed
paidResponse(existing, replayed, header) ==
  sendJson(200,
    [status |-> "ok", replayed |-> replayed, result |-> existing.result,
     payment |-> [idempotencyKey |-> existing.idempotencyKey,
                  amountMicrousdc |-> existing.amountMicrousdc]],
    (X402_PAYMENT_SIGNATURE_HEADER :> header)
    @@ (X402_PAYMENT_RESPONSE_HEADER :>
          [base64 |-> [json |-> [x402Version |-> X402_VERSION, settled |-> TRUE,
                                 idempotencyKey |-> existing.idempotencyKey]]])
    @@ ("x-ace-idempotency-key" :> existing.idempotencyKey))

invalidResponse(message) ==
  sendJson(422, [error |-> "invalid_payment", message |-> message], NoHeaders)

\* The answer the handler gives before it returns from a branch that does not
\* write the ledger; n counts the challenges issued so far.
immediateResponse(request, records, t, n) ==
  LET branch == route(request, records, t)
      payment == decodePaymentHeader(paymentSignatureHeader(request))
  IN CASE branch = "not_found" -> sendJson(404, [error |-> "not_found"], NoHeaders)
       [] branch = "payment_required" ->
            LET challenge == buildChallengeForRequest(deriveResource(request.url),
                                                      ToUpperCase(request.method), t, n + 1)
            IN sendJson(402, [error |-> "payment_required", challenge |-> challenge],
                        X402_PAYMENT_REQUIRED_HEADER :> buildPaymentRequiredHeaderValue(challenge))
       [] branch = "invalid_payment" -> invalidResponse(handlerError(request, t))
       [] branch = "conflict" ->
            sendJson(409, [error |-> "idempotency_key_conflict"], NoHeaders)
       [] branch = "replay" ->
            paidResponse(records[payment.idempotencyKey], TRUE, paymentSignatureHeader(request))

\* The request carries a payment whose idempotency key the ledger holds.
KnownKey(request, records) ==
  /\ request.url.pathname = "/compute"
  /\ IsBase64Json(paymentSignatureHeader(request))
  /\ decodePaymentHeader(paymentSignatureHeader(request)).idempotencyKey \in DOMAIN records

\* What the last answer records: the request, whether its key was in the
\* ledger when it arrived, and the response.
Reply(request, known, response) ==
  [request |-> request, known |-> known, response |-> response]

\* The handler from the arrival of a request to its answer or, for a new
\* payment, to the first await inside ledger.put: nothing else runs in between.
originAfterReceive(o, request, t) ==
  LET branch == route(request, o.records, t)
      payment == decodePaymentHeader(paymentSignatureHeader(request))
      key == payment.idempotencyKey
  IN CASE branch = "new" ->
            [o EXCEPT
               !.records = (key :> recordOf(request, payment, t, o.work + 1)) @@ @,
               !.inflight = (key :> [pc |-> "mkdir", request |-> request]) @@ @,
               !.work = @ + 1]
       [] branch = "payment_required" ->
            [o EXCEPT
               !.issued = @ \cup {immediateResponse(request, o.records, t, o.uuids).body.json.challenge},
               !.uuids = @ + 1,
               !.reply = Reply(request, FALSE, immediateResponse(request, o.records, t, o.uuids))]
       [] OTHER ->
            [o EXCEPT
               !.reply = Reply(request, KnownKey(request, o.records),
                               immediateResponse(request, o.records, t, o.uuids))]

\* ledger.put after mkdir: the records of that moment are written to the
\* temp file.
originAfterWrite(o, key) ==
  [o EXCEPT !.temp = FileOf(o.records), !.inflight[key].pc = "rename"]

\* rename(temp, file), and the answer: 200 when the temp file was there, the
\* catch block's 422 when another request has renamed it away.
originAfterRename(o, key) ==
  LET request == o.inflight[key].request
      rest == [k \in DOMAIN o.inflight \ {key} |-> o.inflight[k]]
  IN IF o.temp = NoFile
     THEN [o EXCEPT !.inflight = rest,
                    !.reply = Reply(request, FALSE, invalidResponse("ENOENT"))]
     ELSE [o EXCEPT !.inflight = rest, !.file = o.temp, !.temp = NoFile,
                    !.reply = Reply(request, FALSE,
                                    paidResponse(o.records[key], FALSE,
                                                 paymentSignatureHeader(request)))]

(***************************************************************************)
(* What reaches the origin                                                 *)
(***************************************************************************)
\* The session of the paying client and the request it pays for.
ClientSession == NewSessionState(ToLowerCase(WalletAddress), MaxLimit, 0, SessionTtl)

ClientRequest == [method |-> "GET", url |-> CHOOSE u \in Urls : TRUE, body |-> NoBody]

\* The payment signForChallenge produces for a challenge at the time it was issued.
HonestPayment(challenge) ==
  SignedPaymentFor(ClientSession, challenge, ClientRequest, challenge.issuedAt)

\* A payment signed anew by the client's wallet after its fields were changed.
Resign(payment) ==
  [f \in DOMAIN payment |->
     IF f = "signature"
     THEN signMessage(WalletAddress, buildPaymentSigningMessage(toUnsignedPayment(payment)))
     ELSE payment[f]]

\* The same payment with its idempotency key derived anew from its fields.
Rekey(payment) ==
  [payment EXCEPT !.idempotencyKey =
     deriveIdempotencyKey(
       [sessionId |-> payment.sessionId, payer |-> payment.payer,
        challengeId |-> payment.challenge.challengeId,
        requestHash |-> payment.requestHash,
        amountMicrousdc |-> payment.amountMicrousdc])]

\* Payments that differ from the honest one: in one field only (the signature
\* no longer fits), or changed and signed anew.
Forgeries(challenge) ==
  LET p == HonestPayment(challenge)
      longer == [challenge EXCEPT !.expiresAt = MaxTime + 1]
      withBody == [ClientRequest EXCEPT !.body = "payload"]
  IN {[p EXCEPT !.version = "ace-x402-v0"],
      [p EXCEPT !.currency = "EUR"],
      [p EXCEPT !.challengeId = "challenge-0"],
      [p EXCEPT !.challenge.resource = "/other"],
      [p EXCEPT !.challenge.method = "POST"],
      [p EXCEPT !.challengeHash = deriveChallengeHash(longer)],
      [p EXCEPT !.amountMicrousdc = config.amountMicrousdc + 1],
      [p EXCEPT !.payer = "0xdef"],
      [p EXCEPT !.signature = signMessage("0xDEf", buildPaymentSigningMessage(toUnsignedPayment(p)))],
      Resign([p EXCEPT !.requestHash = deriveRequestHash(withBody)]),
      Resign(Rekey([p EXCEPT !.amountMicrousdc = config.amountMicrousdc + 1])),
      Resign([p EXCEPT !.sessionExpiresAt = 0]),
      Resign([p EXCEPT !.payer = WalletAddress]),
      SignedPaymentFor(ClientSession, longer, ClientRequest, challenge.issuedAt),
      SignedPaymentFor(ClientSession, challenge, withBody, challenge.issuedAt)}

OriginRequest(method, url, headers) == [method |-> method, url |-> url, headers |-> headers]

PaidRequest(name, payment) ==
  OriginRequest("GET", ClientRequest.url, name :> encodePaymentHeader(payment))

\* The first challenge the origin issued, if it did.
FirstIssued(issued) == {c \in issued : c.challengeId = "challenge-1"}

\* The requests that may arrive once the given challenges are out: without a
\* payment, for another path or resource, with a header that is no payment,
\* with the honest payment for each challenge and, for the first challenge,
\* with the honest payment under other header names and with changed payments.
OriginRequests(issued) ==
  {OriginRequest("GET", ClientRequest.url, NoHeaders),
   OriginRequest("get", ClientRequest.url, "payment-signature" :> EmptyHeader),
   OriginRequest("GET", ClientRequest.url, "payment-signature" :> GarbageHeader),
   OriginRequest("GET", [ClientRequest.url EXCEPT !.pathname = "/health"], NoHeaders)}
  \cup {PaidRequest("payment-signature", HonestPayment(c)) : c \in issued}
  \cup {PaidRequest("x-payment", HonestPayment(c)) : c \in FirstIssued(issued)}
  \cup {OriginRequest("POST", ClientRequest.url,
                      "x-ace-payment" :> encodePaymentHeader(HonestPayment(c))) :
          c \in FirstIssued(issued)}
  \cup {OriginRequest("GET", [ClientRequest.url EXCEPT !.search = "?task=other"],
                      "payment-signature" :> encodePaymentHeader(HonestPayment(c))) :
          c \in FirstIssued(issued)}
  \cup {PaidRequest("payment-signature", p) :
          p \in UNION {Forgeries(c) : c \in FirstIssued(issued)}}

(***************************************************************************)
(* The origin's steps                                                      *)
(***************************************************************************)
\* A request arrives and is handled up to its answer or its first await.
OriginReceive(request) ==
  /\ route(request, origin.records, now) = "payment_required" => origin.uuids < MaxUuids
  /\ route(request, origin.records, now) = "new" =>
       Cardinality(DOMAIN origin.inflight) < MaxInflight
  /\ origin' = originAfterReceive(origin, request, now)

OriginWrite(key) ==
  /\ origin.inflight[key].pc = "mkdir"
  /\ origin' = originAfterWrite(origin, key)

OriginRename(key) ==
  /\ origin.inflight[key].pc = "rename"
  /\ origin' = originAfterRename(origin, key)

(***************************************************************************)
(* Specifications                                                          *)
(***************************************************************************)
\* SessionKey.create on an empty store, at time 0; no x402Fetch under way.
Init ==
  /\ \E limit \in SpendLimits :
       state = NewSessionState(ToLowerCase(WalletAddress), limit, 0, SessionTtl)
  /\ store = state
  /\ now = 0
  /\ last = Report("create", "ok", NoPayment, NoPayment, FALSE, TRUE)
  /\ call = IdleCall
  /\ origin = InitOrigin
  /\ disk = IdleDisk(state)
  /\ calls = NoCalls

\* The session driven by direct calls.
DoSign == \E c \in Challenges, r \in Requests : SignForChallenge(c, r) /\ UNCHANGED <<call, origin, disk, calls>>

DoCommit == \E k \in CallerKeys : CommitPayment(k) /\ UNCHANGED <<call, origin, disk, calls>>

DoRelease == \E k \in CallerKeys : ReleasePayment(k) /\ UNCHANGED <<call, origin, disk, calls>>

DoCreate == \E w \in Wallets, ttl \in {0, SessionTtl} : Create(w, MaxLimit, ttl) /\ UNCHANGED <<call, origin, disk, calls>>

Next ==
  \/ DoSign
  \/ DoCommit
  \/ DoRelease
  \/ DoCreate
  \/ Tick

Spec == Init /\ [][Next]_vars

\* The session driven through the interceptor, one x402Fetch after the other.
DoFetchFirst ==
  \E init \in Inits, answer \in FirstResponses \cup {TransportThrows} :
    FetchFirst(init, answer) /\ UNCHANGED <<origin, disk, calls>>

DoFetchSign == FetchSign /\ UNCHANGED <<origin, disk, calls>>

DoFetchRetry ==
  \E answer \in RetryResponses(call.signed, state.pendingAttempts) \cup {TransportThrows} :
    FetchRetry(answer) /\ UNCHANGED <<origin, disk, calls>>

NextFetch ==
  \/ DoFetchFirst
  \/ DoFetchSign
  \/ DoFetchRetry
  \/ Tick

SpecFetch == Init /\ [][NextFetch]_vars

\* The origin alone, under every request of OriginRequests, in any interleaving
\* of the requests that wait for the ledger file.
DoOriginReceive ==
  \E request \in OriginRequests(origin.issued) :
    OriginReceive(request) /\ UNCHANGED <<state, store, last, call, now, disk, calls>>

DoOriginWrite ==
  \E key \in DOMAIN origin.inflight :
    OriginWrite(key) /\ UNCHANGED <<state, store, last, call, now, disk, calls>>

DoOriginRename ==
  \E key \in DOMAIN origin.inflight :
    OriginRename(key) /\ UNCHANGED <<state, store, last, call, now, disk, calls>>

NextOrigin ==
  \/ DoOriginReceive
  \/ DoOriginWrite
  \/ DoOriginRename
  \/ Tick

SpecOrigin == Init /\ [][NextOrigin]_vars

\* The session, the interceptor and the origin together: the transport of
\* x402Fetch is the origin, and the client of this session is its only client.
\* What the caller passes: a GET without a body (with and without a method in
\* the init) and a POST with a string body.
PaidInits ==
  {[method |-> "get", url |-> ClientRequest.url, body |-> NoBody, headers |-> {}],
   [method |-> NoMethod, url |-> ClientRequest.url, body |-> "", headers |-> {"Accept"}],
   [method |-> "post", url |-> ClientRequest.url, body |-> "payload", headers |-> {}]}

\* fetchImpl(input, init): the request as it reaches the origin, without a
\* payment header.
FirstRequest(init) == OriginRequest(resolveMethod(init), init.url, NoHeaders)

\* fetchImpl(input, {...init, headers: retryHeaders}): method and URL of the
\* first request, the signed payment as PAYMENT-SIGNATURE.
RetryRequest(c) ==
  OriginRequest(c.request.method, c.request.url,
                ToLowerCase(X402_PAYMENT_SIGNATURE_HEADER) :> encodePaymentHeader(c.signed))

\* The first transport call and its answer.
PaidFirst(init) ==
  /\ OriginReceive(FirstRequest(init))
  /\ FetchFirst(init, origin'.reply.response)
  /\ UNCHANGED <<disk, calls>>

PaidSign == FetchSign /\ UNCHANGED <<origin, disk, calls>>

\* The retry reaches the origin, which refuses or replays it at once.
PaidRetryAnswered ==
  /\ call.pc = "signed"
  /\ call.signed.idempotencyKey \notin DOMAIN origin.inflight
  /\ route(RetryRequest(call), origin.records, now) # "new"
  /\ OriginReceive(RetryRequest(call))
  /\ FetchRetry(origin'.reply.response)
  /\ UNCHANGED <<disk, calls>>

\* The retry reaches the origin, which records the payment and starts to
\* write its ledger file; x402Fetch awaits the response.
PaidRetrySent ==
  /\ call.pc = "signed"
  /\ route(RetryRequest(call), origin.records, now) = "new"
  /\ OriginReceive(RetryRequest(call))
  /\ UNCHANGED <<state, store, last, call, now, disk, calls>>

PaidWrite ==
  /\ call.pc = "signed"
  /\ call.signed.idempotencyKey \in DOMAIN origin.inflight
  /\ OriginWrite(call.signed.idempotencyKey)
  /\ UNCHANGED <<state, store, last, call, now, disk, calls>>

\* The ledger file is renamed into place and the origin answers the retry.
PaidRetryDone ==
  /\ call.pc = "signed"
  /\ call.signed.idempotencyKey \in DOMAIN origin.inflight
  /\ OriginRename(call.signed.idempotencyKey)
  /\ FetchRetry(origin'.reply.response)
  /\ UNCHANGED <<disk, calls>>

NextPaid ==
  \/ \E init \in PaidInits : PaidFirst(init)
  \/ PaidSign
  \/ PaidRetryAnswered
  \/ PaidRetrySent
  \/ PaidWrite
  \/ PaidRetryDone
  \/ Tick

SpecPaid == Init /\ [][NextPaid]_vars

\* The session on a FileSessionStore, driven by one caller, with restarts.
DoStoreSignBegin ==
  \E c \in StoreChallenges, r \in StoreRequests :
    StoreSignBegin(c, r) /\ UNCHANGED <<call, origin, calls>>

DoStoreSigned == StoreSigned /\ UNCHANGED <<call, origin, calls>>

DoStoreCommitBegin ==
  \E k \in CallerKeys : StoreCommitBegin(k) /\ UNCHANGED <<call, origin, calls>>

DoStoreReleaseBegin ==
  \E k \in CallerKeys : StoreReleaseBegin(k) /\ UNCHANGED <<call, origin, calls>>

DoStoreWrite == StoreWrite /\ UNCHANGED <<call, origin, calls>>

DoStoreRename == StoreRename /\ UNCHANGED <<call, origin, calls>>

DoStoreRestart ==
  \E how \in {"restore", "create"}, w \in Wallets, ttl \in {0, SessionTtl} :
    StoreRestart(how, w, ttl) /\ UNCHANGED <<call, origin, calls>>

NextStore ==
  \/ DoStoreSignBegin
  \/ DoStoreSigned
  \/ DoStoreCommitBegin
  \/ DoStoreReleaseBegin
  \/ DoStoreWrite
  \/ DoStoreRename
  \/ DoStoreRestart
  \/ Tick

SpecStore == Init /\ [][NextStore]_vars

\* Sessions created and restored on a store that starts empty, and used by
\* the wallet of the model in between.
InitBind ==
  /\ state = NoSession
  /\ store = NoSession
  /\ now = 0
  /\ last = Report("none", "ok", NoPayment, NoPayment, FALSE, FALSE)
  /\ call = IdleCall
  /\ origin = InitOrigin
  /\ disk = IdleDisk(NoSession)
  /\ calls = NoCalls

\* The caller holds a SessionKey of the model's wallet.
Holding == state # NoSession /\ state.payer = ToLowerCase(WalletAddress)

DoCreateSession ==
  \E w \in Wallets, limit \in SpendLimits, ttl \in BindTtls :
    CreateSession(w, limit, ttl) /\ UNCHANGED <<call, origin, disk, calls>>

DoRestoreSession == \E w \in Wallets : RestoreSession(w) /\ UNCHANGED <<call, origin, disk, calls>>

BindSign ==
  /\ Holding
  /\ \E c \in StoreChallenges, r \in StoreRequests : SignForChallenge(c, r)
  /\ UNCHANGED <<call, origin, disk, calls>>

BindCommit ==
  /\ Holding
  /\ \E k \in DOMAIN state.pendingAttempts : CommitPayment(k)
  /\ UNCHANGED <<call, origin, disk, calls>>

NextBind ==
  \/ DoCreateSession
  \/ DoRestoreSession
  \/ BindSign
  \/ BindCommit
  \/ Tick

SpecBind == InitBind /\ [][NextBind]_vars

\* The session driven by one caller, with the record of the committed keys.
DoAttemptSign ==
  \E c \in StoreChallenges, r \in StoreRequests :
    AttemptSign(c, r) /\ UNCHANGED <<call, origin, disk>>

DoAttemptCommit == \E k \in CallerKeys : AttemptCommit(k) /\ UNCHANGED <<call, origin, disk>>

DoAttemptRelease == \E k \in CallerKeys : AttemptRelease(k) /\ UNCHANGED <<call, origin, disk>>

NextAttempt ==
  \/ DoAttemptSign
  \/ DoAttemptCommit
  \/ DoAttemptRelease
  \/ Tick

SpecAttempt == Init /\ [][NextAttempt]_vars

\* The session signing for challenges as they reach it: parsed from a 402
\* without a mac, built by a caller with `mac: undefined`, issued by the origin.
SigningChallenges ==
  {BaseChallenge,
   [f \in DOMAIN BaseChallenge \cup {"mac"} |->
      IF f = "mac" THEN Undefined
      ELSE IF f = "challengeId" THEN "challenge-2" ELSE BaseChallenge[f]],
   buildChallengeForRequest(BaseChallenge.resource, BaseChallenge.method, 0, 3)}

DoSigningSign ==
  \E c \in SigningChallenges, r \in StoreRequests :
    AttemptSign(c, r) /\ UNCHANGED <<call, origin, disk>>

NextSigning ==
  \/ DoSigningSign
  \/ DoAttemptCommit
  \/ DoAttemptRelease
  \/ Tick

SpecSigning == Init /\ [][NextSigning]_vars

\* The session called with challenges that fail any number of checks at once.
OrderChallenges ==
  [version : Versions, challengeId : {"challenge-1"}, resource : ChallengeResources,
   method : ChallengeMethods, amountMicrousdc : SpendLimits, currency : Currencies,
   expiresAt : {1, MaxTime + 1}]

DoOrderSign ==
  \E c \in OrderChallenges, r \in StoreRequests :
    SignForChallenge(c, r) /\ UNCHANGED <<call, origin, disk, calls>>

NextOrder ==
  \/ DoOrderSign
  \/ DoCommit
  \/ DoRelease
  \/ Tick

SpecOrder == Init /\ [][NextOrder]_vars

\* Calls of signForChallenge that overlap at their awaits.
DoSignEnter ==
  \E c \in StoreChallenges, r \in StoreRequests :
    SignEnter(c, r) /\ UNCHANGED <<call, origin, disk>>

DoSignResume ==
  \E i \in DOMAIN calls.inflight : SignResume(i) /\ UNCHANGED <<call, origin, disk>>

DoSignSaved ==
  \E i \in DOMAIN calls.inflight : SignSaved(i) /\ UNCHANGED <<call, origin, disk>>

NextConc ==
  \/ DoSignEnter
  \/ DoSignResume
  \/ DoSignSaved
  \/ Tick

SpecConc == Init /\ [][NextConc]_vars

\* One caller, each call entered when the one before has settled, on a store
\* whose save may fail.
DoSaveEnter ==
  /\ AllSettled
  /\ \E c \in StoreChallenges, r \in StoreRequests : SignEnter(c, r)
  /\ UNCHANGED <<call, origin, disk>>

DoSignSaveFails ==
  \E i \in DOMAIN calls.inflight : SignSaveFails(i) /\ UNCHANGED <<call, origin, disk>>

NextSave ==
  \/ DoSaveEnter
  \/ DoSignResume
  \/ DoSignSaved
  \/ DoSignSaveFails
  \/ Tick

SpecSave == Init /\ [][NextSave]_vars

\* The paid call, the death of the client's process while it awaits the
\* retry, and the same request issued again on the restored session.  The
\* origin goes on with a payment it received: its answer reaches nobody.
RecoverInits == {init \in PaidInits : resolveBody(init) \in {NoBody, ""}}

CrashRestore ==
  /\ call.pc = "signed"
  /\ calls.crashed = {}
  /\ restoreCheck(store, WalletAddress) = "ok"
  /\ state' = restoredState(store)
  /\ last' = Report("restore", "ok", NoPayment, NoPayment, FALSE, FALSE)
  /\ call' = IdleCall
  /\ calls' = [calls EXCEPT
       !.crashed = {store.pendingAttempts[k] : k \in DOMAIN store.pendingAttempts}]
  /\ UNCHANGED <<store, now, origin, disk>>

\* No x402Fetch call awaits the origin's answer for this key.
Orphaned(key) == IF call.pc = "signed" THEN call.signed.idempotencyKey # key ELSE TRUE

RecoverWrite ==
  /\ \E k \in DOMAIN origin.inflight : Orphaned(k) /\ OriginWrite(k)
  /\ UNCHANGED <<state, store, last, call, now, disk, calls>>

RecoverRename ==
  /\ \E k \in DOMAIN origin.inflight : Orphaned(k) /\ OriginRename(k)
  /\ UNCHANGED <<state, store, last, call, now, disk, calls>>

NextRecover ==
  \/ \E init \in RecoverInits : PaidFirst(init)
  \/ PaidSign
  \/ PaidRetryAnswered
  \/ PaidRetrySent
  \/ PaidWrite
  \/ PaidRetryDone
  \/ CrashRestore
  \/ RecoverWrite
  \/ RecoverRename
  \/ Tick

SpecRecover == Init /\ [][NextRecover]_vars

\* The session used through the interceptor against the origin over a
\* transport that may fail: a request may not reach the origin, and an answer
\* of the origin may not reach the client.  The origin goes on with a payment
\* whose answer is lost.
LossyFirst ==
  /\ \E init \in PaidInits : FetchFirst(init, TransportThrows)
  /\ UNCHANGED <<origin, disk, calls>>

LossyFirstAnswer ==
  /\ \E init \in PaidInits :
       /\ OriginReceive(FirstRequest(init))
       /\ FetchFirst(init, TransportThrows)
  /\ UNCHANGED <<disk, calls>>

LossyRetry ==
  /\ call.pc = "signed"
  /\ FetchRetry(TransportThrows)
  /\ UNCHANGED <<origin, disk, calls>>

LossyRetryAnswer ==
  /\ call.pc = "signed"
  /\ call.signed.idempotencyKey \notin DOMAIN origin.inflight
  /\ route(RetryRequest(call), origin.records, now) # "new"
  /\ OriginReceive(RetryRequest(call))
  /\ FetchRetry(TransportThrows)
  /\ UNCHANGED <<disk, calls>>

NextLossy ==
  \/ \E init \in PaidInits : PaidFirst(init)
  \/ PaidSign
  \/ PaidRetryAnswered
  \/ PaidRetrySent
  \/ PaidWrite
  \/ PaidRetryDone
  \/ LossyFirst
  \/ LossyFirstAnswer
  \/ LossyRetry
  \/ LossyRetryAnswer
  \/ RecoverWrite
  \/ RecoverRename
  \/ Tick

SpecLossy == Init /\ [][NextLossy]_vars

(***************************************************************************)
(* Claims about the session ledger                                         *)
(***************************************************************************)
\* A step in which a call on the session completed (Tick changes neither).
CallStep == last' # last \/ state' # state

SignStep == CallStep /\ last'.op = "signForChallenge"

\* A signForChallenge call that repeats a pending attempt: same challenge, same
\* request hash, the attempt still pending when the call is made.
RepeatStep == SignStep /\ last'.attempt # NoPayment

\* C1 (as claimed): in every reachable state cumulativeSpendMicrousdc plus the
\* pending amounts is at most spendLimitMicrousdc, i.e. availableSpendMicrousdc
\* is never negative.
C1_SpendSafety ==
  /\ state.cumulativeSpendMicrousdc + pendingSpendMicrousdc(state) <= state.spendLimitMicrousdc
  /\ getSnapshot(state).availableSpendMicrousdc >= 0

\* C2 (as claimed): no operation decreases cumulativeSpendMicrousdc.
C2_SpendMonotonic ==
  [][state'.cumulativeSpendMicrousdc >= state.cumulativeSpendMicrousdc]_vars

\* C3 (as claimed): a signForChallenge call that repeats a pending attempt
\* returns that attempt's SignedPayment.
C3_RepeatReturnsSame ==
  [][RepeatStep => last'.payment = last'.attempt]_vars

\* C3 (amended): a signForChallenge call that repeats a pending attempt never asks
\* the wallet to sign, never changes the state or the store, leaves exactly one
\* pending entry with the attempt's key, and returns the attempt's SignedPayment
\* verbatim (same signature, same issuedAt) unless the session or the challenge
\* has expired by the time of the call, in which case it throws.
C3_RepeatIsStable ==
  [][RepeatStep =>
       /\ ~last'.walletSigned
       /\ ~last'.storeSaved
       /\ state' = state
       /\ store' = store
       /\ Cardinality({k \in DOMAIN state'.pendingAttempts :
             state'.pendingAttempts[k].idempotencyKey = last'.attempt.idempotencyKey}) = 1
       /\ IF now >= state.expiresAt
          THEN last'.status = "SessionExpired" /\ last'.payment = NoPayment
          ELSE IF last'.attempt.challenge.expiresAt <= now
          THEN last'.status = "ChallengeExpired" /\ last'.payment = NoPayment
          ELSE /\ last'.payment = last'.attempt
               /\ last'.payment.signature = last'.attempt.signature
               /\ last'.payment.issuedAt = last'.attempt.issuedAt]_vars

\* C3 witness: a repeated call returned the attempt signed at an earlier time.
C3_Witness ==
  /\ last.op = "signForChallenge"
  /\ last.attempt # NoPayment
  /\ last.payment = last.attempt
  /\ last.payment.issuedAt < now
  /\ Cardinality(DOMAIN state.pendingAttempts) = 1

\* C4: a signForChallenge call that throws has not invoked the wallet, has added
\* no pending entry, has left cumulativeSpendMicrousdc and the state unchanged and
\* has not written the store; and the wallet is invoked only for a call that
\* passes every check (session and challenge unexpired, version, currency, method
\* and resource right, amount at most availableSpendMicrousdc).
C4_FailedSignTouchesNothing ==
  [][SignStep =>
       /\ last'.status \in SignErrors =>
            /\ ~last'.walletSigned
            /\ ~last'.storeSaved
            /\ last'.payment = NoPayment
            /\ DOMAIN state'.pendingAttempts = DOMAIN state.pendingAttempts
            /\ state'.cumulativeSpendMicrousdc = state.cumulativeSpendMicrousdc
            /\ state' = state
            /\ store' = store
       /\ last'.walletSigned =>
            /\ now < state.expiresAt
            /\ last'.payment.challenge.version = ACE_PAYMENT_VERSION
            /\ last'.payment.challenge.currency = USDC
            /\ last'.payment.challenge.expiresAt > now
            /\ \E r \in Requests :
                 /\ last'.payment.challenge.method = ToUpperCase(r.method)
                 /\ last'.payment.challenge.resource = deriveResource(r.url)
            /\ last'.payment.amountMicrousdc <= availableSpendMicrousdc(state)
       /\ last'.status \in SignErrors \cup {"Existing", "Signed"}]_vars

\* C4 witness: a call was refused for the spend limit while an attempt is pending.
C4_Witness ==
  /\ last.op = "signForChallenge"
  /\ last.status = "SpendLimitExceeded"
  /\ DOMAIN state.pendingAttempts # {}
  /\ store = state

\* C5: commitPayment(k) for a pending k adds exactly that attempt's amount to
\* cumulativeSpendMicrousdc, removes exactly the entry k, lowers
\* pendingSpendMicrousdc by the amount and leaves availableSpendMicrousdc,
\* spendLimitMicrousdc and every other pending entry unchanged.
C5_CommitMovesAmount ==
  [][\A k \in DOMAIN state.pendingAttempts :
       CommitPayment(k) =>
         LET amount == state.pendingAttempts[k].amountMicrousdc
         IN /\ state'.cumulativeSpendMicrousdc = state.cumulativeSpendMicrousdc + amount
            /\ DOMAIN state'.pendingAttempts = DOMAIN state.pendingAttempts \ {k}
            /\ \A j \in DOMAIN state'.pendingAttempts :
                 state'.pendingAttempts[j] = state.pendingAttempts[j]
            /\ pendingSpendMicrousdc(state') = pendingSpendMicrousdc(state) - amount
            /\ availableSpendMicrousdc(state') = availableSpendMicrousdc(state)
            /\ state'.spendLimitMicrousdc = state.spendLimitMicrousdc]_vars

\* C5 witness: a commit took effect and another attempt is still pending.
C5_Witness ==
  /\ last.op = "commitPayment"
  /\ last.storeSaved
  /\ state.cumulativeSpendMicrousdc > 0
  /\ DOMAIN state.pendingAttempts # {}

\* C6: releasePayment(k) for a pending k removes exactly the entry k, leaves
\* cumulativeSpendMicrousdc and every other pending entry unchanged and raises
\* availableSpendMicrousdc by exactly the released amount.
C6_ReleaseFreesAmount ==
  [][\A k \in DOMAIN state.pendingAttempts :
       ReleasePayment(k) =>
         LET amount == state.pendingAttempts[k].amountMicrousdc
         IN /\ DOMAIN state'.pendingAttempts = DOMAIN state.pendingAttempts \ {k}
            /\ \A j \in DOMAIN state'.pendingAttempts :
                 state'.pendingAttempts[j] = state.pendingAttempts[j]
            /\ state'.cumulativeSpendMicrousdc = state.cumulativeSpendMicrousdc
            /\ availableSpendMicrousdc(state') = availableSpendMicrousdc(state) + amount]_vars

\* C6 witness: a release took effect after an earlier commit, another attempt
\* still pending.
C6_Witness ==
  /\ last.op = "releasePayment"
  /\ last.storeSaved
  /\ state.cumulativeSpendMicrousdc > 0
  /\ DOMAIN state.pendingAttempts # {}

\* C7: commitPayment and releasePayment with a key that is not pending change
\* nothing, write nothing to the store and raise no error; and after either call
\* its key is not pending, so a second commit or release of the same key, or a
\* commit after a release, is such a no-op and cannot raise cumulativeSpendMicrousdc.
C7_UnknownKeyIsNoOp ==
  [][\A k \in CallerKeys :
       (CommitPayment(k) \/ ReleasePayment(k)) =>
         /\ k \notin DOMAIN state'.pendingAttempts
         /\ last'.status = "ok"
         /\ k \notin DOMAIN state.pendingAttempts =>
              /\ state' = state
              /\ store' = store
              /\ ~last'.storeSaved]_vars

\* C7 witness: a commit or release of an unknown key happened while an attempt
\* was pending and spend had been committed.
C7_Witness ==
  /\ last.op \in {"commitPayment", "releasePayment"}
  /\ ~last.storeSaved
  /\ DOMAIN state.pendingAttempts # {}
  /\ state.cumulativeSpendMicrousdc > 0

(***************************************************************************)
(* Claims about the interceptor                                            *)
(***************************************************************************)
\* An x402Fetch call has ended after signing a payment and sending the retry.
RetryDone == call.pc = "done" /\ call.signed # NoPayment /\ call.fetchCalls = 2

C9_OkRetryCommits ==
  (RetryDone /\ call.retry # NoResponse /\ ResponseOk(call.retry)) =>
    /\ call.commitCalls = 1
    /\ call.releaseCalls = 0
    /\ call.returned = call.retry
    /\ call.thrown = "none"
    /\ call.commitKey =
         IF call.retry.paymentSignature = NoHeader THEN call.signed.idempotencyKey
         ELSE IF IsBase64Json(call.retry.paymentSignature) THEN EchoedKey(call.retry)
         ELSE NoKey

\* The counts of one x402Fetch call, and what holds once a first response with
\* a status other than 402 has arrived.
CallCounts ==
  /\ call.fetchCalls <= 2
  /\ call.signCalls <= 1
  /\ call.commitCalls + call.releaseCalls <= 1
  /\ call.fetchCalls = 2 => call.signCalls = 1 /\ call.signed # NoPayment
  /\ (call.first # NoResponse /\ call.first.status # 402) =>
       /\ call.pc = "done"
       /\ call.fetchCalls = 1
       /\ call.returned = call.first
       /\ call.thrown = "none"
       /\ call.signCalls = 0
       /\ call.commitCalls = 0
       /\ call.releaseCalls = 0
       /\ call.signed = NoPayment

\* C10: per x402Fetch call the transport is invoked at most twice and
\* signForChallenge at most once, the retry only after a signature; when the
\* status of the first response is not 402 the transport was invoked exactly
\* once, that response is returned unchanged and the session saw no sign, commit
\* or release: a step that answers the first request with such a response
\* leaves state, store and the session's call record as they were.
C10_AtMostTwoCalls ==
  /\ []CallCounts
  /\ [][(call'.first # NoResponse /\ call'.first.status # 402 /\ call' # call) =>
          /\ state' = state
          /\ store' = store
          /\ last' = last]_vars

\* C10 witness: a call that got a 500 first ended after one transport call,
\* while the session holds committed spend from an earlier paid call.
C10_Witness ==
  /\ call.pc = "done"
  /\ call.first # NoResponse
  /\ call.first.status = 500
  /\ call.returned = call.first
  /\ call.fetchCalls = 1
  /\ state.cumulativeSpendMicrousdc > 0

C12_SignErrorPropagates ==
  (call.signCalls = 1 /\ call.signed = NoPayment) =>
    /\ call.pc = "done"
    /\ call.thrown \in SignErrors
    /\ last.op = "signForChallenge"
    /\ call.thrown = last.status
    /\ call.returned = NoResponse
    /\ call.fetchCalls = 1
    /\ call.retry = NoResponse
    /\ call.commitCalls = 0
    /\ call.releaseCalls = 0

\* C12 witness: the challenge asked for more than the session has left.
C12_Witness ==
  /\ call.pc = "done"
  /\ call.signCalls = 1
  /\ call.thrown = "SpendLimitExceeded"
  /\ call.fetchCalls = 1
  /\ state.cumulativeSpendMicrousdc > 0

(***************************************************************************)
(* Claims about the origin                                                 *)
(***************************************************************************)
\* The payment of the last answered request, when its header holds one.
RepliedPayment == decodePaymentHeader(paymentSignatureHeader(origin.reply.request))

\* The last answered request carried a payment whose key was already in the
\* ledger, and payer, amount and request hash of the payment match the record.
RepliedKnownMatch ==
  /\ origin.reply # NoReply
  /\ origin.reply.known
  /\ origin.records[RepliedPayment.idempotencyKey].payer = ToLowerCase(RepliedPayment.payer)
  /\ origin.records[RepliedPayment.idempotencyKey].amountMicrousdc = RepliedPayment.amountMicrousdc
  /\ origin.records[RepliedPayment.idempotencyKey].requestHash = RepliedPayment.requestHash

\* The last answer is the replay of the record of its payment's key.
RepliedReplay ==
  /\ origin.reply.response.status = 200
  /\ origin.reply.response.body.json.replayed = TRUE
  /\ origin.reply.response.body.json.result = origin.records[RepliedPayment.idempotencyKey].result
  /\ decodePaymentHeader(origin.reply.response.paymentResponse).idempotencyKey
       = RepliedPayment.idempotencyKey

\* A step in which the handler answers a request within the step that receives
\* it (no wait for the ledger file in between).
AnswerStep == origin'.reply # origin.reply /\ origin'.inflight = origin.inflight

\* C13 (as claimed): every request that carries a payment whose key is in the
\* ledger, with matching payer, amount and request hash, is answered 200 with
\* replayed=true, the stored result and the same key in PAYMENT-RESPONSE.
C13_ReplayAlways == RepliedKnownMatch => RepliedReplay

\* C13 (amended): a request that carries a payment whose key is in the ledger
\* and that passes the verification at the time it arrives is answered 200 with
\* replayed=true, the stored result (same computeId) and the same key in
\* PAYMENT-RESPONSE, and leaves ledger and work count as they are; an answer
\* with replayed=false is given only to a request whose key was not in the
\* ledger when it arrived, and the work has been executed exactly once per record.
C13_ReplayWhenValid ==
  /\ [][(/\ AnswerStep
         /\ KnownKey(origin'.reply.request, origin.records)
         /\ handlerError(origin'.reply.request, now) = "ok") =>
          /\ origin'.reply.known
          /\ origin'.reply.response.status = 200
          /\ origin'.reply.response.body.json.replayed = TRUE
          /\ origin'.reply.response.body.json.result
               = origin.records[decodePaymentHeader(paymentSignatureHeader(
                                  origin'.reply.request)).idempotencyKey].result
          /\ decodePaymentHeader(origin'.reply.response.paymentResponse).idempotencyKey
               = decodePaymentHeader(paymentSignatureHeader(
                   origin'.reply.request)).idempotencyKey
          /\ origin'.records = origin.records
          /\ origin'.work = origin.work]_vars
  /\ []((origin.reply # NoReply /\ origin.reply.response.status = 200) =>
          (origin.reply.response.body.json.replayed <=> origin.reply.known))
  /\ [](origin.work = Cardinality(DOMAIN origin.records))

\* C13 witness: a replay was answered after the record's first answer.
C13_Witness ==
  /\ RepliedKnownMatch
  /\ RepliedReplay
  /\ origin.work = 1
  /\ DOMAIN origin.inflight = {}
  /\ origin.file.present

\* C14 (as claimed): a request carrying a payment whose key is in the ledger
\* but whose payer, amount or request hash differs from the record is
\* answered 409.
C14_ConflictIs409 ==
  (/\ origin.reply # NoReply
   /\ origin.reply.known
   /\ isConflict(origin.records[RepliedPayment.idempotencyKey], RepliedPayment)) =>
    origin.reply.response.status = 409

\* The successful answers agree with the ledger: a 200 answer carries the
\* result of the record of its payment's key.
AnswersFromLedger ==
  (origin.reply # NoReply /\ origin.reply.response.status = 200) =>
    /\ RepliedPayment.idempotencyKey \in DOMAIN origin.records
    /\ origin.reply.response.body.json.result
         = origin.records[RepliedPayment.idempotencyKey].result
    /\ origin.reply.response.body.json.payment.idempotencyKey = RepliedPayment.idempotencyKey

\* C15: a record of the origin's ledger is never changed, replaced or removed
\* by a later step, whatever requests arrive and however the requests in
\* flight interleave; the work has been executed exactly once per record, and
\* every 200 answer for a key carries the result of that one record.
C15_RecordsImmutable ==
  /\ [][\A k \in DOMAIN origin.records :
          k \in DOMAIN origin'.records /\ origin'.records[k] = origin.records[k]]_vars
  /\ [](origin.work = Cardinality(DOMAIN origin.records))
  /\ []AnswersFromLedger

\* C15 witness: a request was answered by replay while the request that wrote
\* the record was still waiting for the ledger file.
C15_Witness ==
  /\ RepliedKnownMatch
  /\ RepliedReplay
  /\ RepliedPayment.idempotencyKey \in DOMAIN origin.inflight
  /\ Cardinality(DOMAIN origin.records) = 2

\* The verification steps of the origin for a payment, a request and a time.
PassesEveryStep(payment, request, t) ==
  /\ payment.version = ACE_PAYMENT_VERSION
  /\ payment.currency = USDC
  /\ payment.challengeId = payment.challenge.challengeId
  /\ payment.challenge.resource = request.url.pathname \o request.url.search
  /\ payment.challenge.method = ToUpperCase(request.method)
  /\ payment.challengeHash = deriveChallengeHash(payment.challenge)
  /\ payment.requestHash = originRequestHash(request)
  /\ payment.challenge.mac = hmac(config.challengeSecret, WithoutMac(payment.challenge))
  /\ payment.challenge.expiresAt > t
  /\ payment.idempotencyKey =
       deriveIdempotencyKey(
         [sessionId |-> payment.sessionId, payer |-> payment.payer,
          challengeId |-> payment.challenge.challengeId,
          requestHash |-> payment.requestHash,
          amountMicrousdc |-> payment.amountMicrousdc])
  /\ payment.amountMicrousdc = config.amountMicrousdc
  /\ payment.sessionExpiresAt > t
  /\ payment.signature.message = buildPaymentSigningMessage(toUnsignedPayment(payment))
  /\ ToLowerCase(payment.signature.signer) = ToLowerCase(payment.payer)

\* The request answered or taken into the ledger by this step.
ReceivedRequest ==
  IF AnswerStep THEN origin'.reply.request
  ELSE origin'.inflight[CHOOSE k \in DOMAIN origin'.inflight : k \notin DOMAIN origin.inflight].request

\* A step that receives a request carrying a decodable payment.
ReceivePaymentStep ==
  /\ AnswerStep \/ DOMAIN origin'.inflight \ DOMAIN origin.inflight # {}
  /\ ReceivedRequest.url.pathname = "/compute"
  /\ IsBase64Json(paymentSignatureHeader(ReceivedRequest))

\* C16: a step that receives a payment failing a verification step answers 422
\* invalid_payment and leaves ledger, work count, files and requests in flight as
\* they are; a payment is recorded or replayed (the two ways to a 200) only
\* when it passes every step at the time it arrives.
C16_OnlyVerifiedPaymentsPaid ==
  [][ReceivePaymentStep =>
       IF PassesEveryStep(decodePaymentHeader(paymentSignatureHeader(ReceivedRequest)),
                          ReceivedRequest, now)
       THEN \/ /\ ~AnswerStep
               /\ origin'.work = origin.work + 1
            \/ /\ AnswerStep
               /\ origin'.reply.response.status = 200
               /\ origin'.reply.response.body.json.replayed = TRUE
       ELSE /\ AnswerStep
            /\ origin'.reply.response.status = 422
            /\ origin'.reply.response.body.json.error = "invalid_payment"
            /\ origin'.records = origin.records
            /\ origin'.work = origin.work
            /\ origin'.file = origin.file
            /\ origin'.temp = origin.temp]_vars

\* C16 witness: a payment with a signature of another wallet was refused
\* after the honest payment for the same challenge had been recorded.
C16_Witness ==
  /\ origin.reply # NoReply
  /\ origin.reply.response.status = 422
  /\ origin.reply.response.body.json.message = "Signature does not match payer"
  /\ origin.reply.known
  /\ origin.work = 1

\* C17: every 200 answer, new or replayed, carries the request's payment
\* header value as PAYMENT-SIGNATURE, a PAYMENT-RESPONSE that decodes to
\* {x402Version: 2, settled: true, idempotencyKey} and an x-ace-idempotency-key
\* header, both with the key of the payment in the request; so the key decoded
\* from the echo is the key of the payment sent.
C17_PaidAnswerEchoes ==
  (origin.reply # NoReply /\ origin.reply.response.status = 200) =>
    /\ origin.reply.response.paymentSignature = paymentSignatureHeader(origin.reply.request)
    /\ decodePaymentHeader(origin.reply.response.paymentResponse)
         = [x402Version |-> 2, settled |-> TRUE,
            idempotencyKey |-> RepliedPayment.idempotencyKey]
    /\ origin.reply.response.idempotencyKeyHeader = RepliedPayment.idempotencyKey
    /\ Truthy(origin.reply.response.paymentSignature)
    /\ IsBase64Json(origin.reply.response.paymentSignature)
    /\ EchoedKey(origin.reply.response) = RepliedPayment.idempotencyKey

\* C17 witness: a new payment sent as x-payment was answered 200.
C17_Witness ==
  /\ origin.reply # NoReply
  /\ origin.reply.response.status = 200
  /\ origin.reply.response.body.json.replayed = FALSE
  /\ "x-payment" \in DOMAIN origin.reply.request.headers
  /\ origin.file.present

(***************************************************************************)
(* Claims about session, interceptor and origin together                   *)
(***************************************************************************)
\* The first x402Fetch of the fresh session has ended, the spend limit covers
\* the origin's price, and neither the session nor the challenge has expired.
FirstCallDone ==
  /\ call.pc = "done"
  /\ origin.uuids = 1
  /\ state.cumulativeSpendMicrousdc + pendingSpendMicrousdc(state) <= state.spendLimitMicrousdc
  /\ state.spendLimitMicrousdc >= config.amountMicrousdc
  /\ now < state.expiresAt
  /\ call.challenge # NoChallenge
  /\ now < call.challenge.expiresAt

\* The happy path of the phase-0 demo: 402, one signature, one retry, 200 with
\* replayed=false, the amount committed and one record at the origin.
PaidOutcome ==
  /\ call.first.status = 402
  /\ call.signCalls = 1
  /\ call.fetchCalls = 2
  /\ call.thrown = "none"
  /\ call.returned.status = 200
  /\ call.returned.body.json.replayed = FALSE
  /\ call.commitCalls = 1
  /\ call.commitKey = call.signed.idempotencyKey
  /\ state.cumulativeSpendMicrousdc = config.amountMicrousdc
  /\ pendingSpendMicrousdc(state) = 0
  /\ availableSpendMicrousdc(state) = state.spendLimitMicrousdc - config.amountMicrousdc
  /\ DOMAIN origin.records = {call.signed.idempotencyKey}

\* The same for the calls that send no body, as the demo and the tests do.
BodylessCallIsPaid ==
  (FirstCallDone /\ call.request.body = NoBody) => PaidOutcome

\* C18: on a fresh unexpired session whose limit covers the configured
\* amount, one x402Fetch to the protected resource gets 402, signs, retries
\* once and returns 200 with replayed=false; then cumulative spend is the
\* amount, pending spend is 0, available spend is the limit minus the amount
\* and the origin's ledger holds exactly the record of the signed key.
C18_EveryCallIsPaid == FirstCallDone => PaidOutcome

RestartOps == {"restore", "create"}

\* The session was obtained from the store and nothing was called since.
JustRestored == disk.pc = "idle" /\ last.op \in RestartOps

\* The session was obtained from the store and the first call after that,
\* a signForChallenge that repeats an attempt pending in the stored state,
\* has returned or thrown.
RepeatedAfterRestore ==
  /\ disk.pc = "idle"
  /\ disk.before \in RestartOps
  /\ last.op = "signForChallenge"
  /\ last.attempt # NoPayment

CreateKeepsStored(wallet, limit, ttl) ==
  /\ store' = store
  /\ ~last'.storeSaved
  /\ last'.status # "created"
  /\ store.payer # ToLowerCase(wallet) => last'.status # "ok" /\ state' = state
  /\ ttl <= 0 => last'.status = "TtlNotPositive" /\ state' = state
  /\ (store.payer = ToLowerCase(wallet) /\ ttl > 0) =>
       /\ last'.status = "ok"
       /\ state' = store
       /\ state'.sessionId = store.sessionId
       /\ state'.spendLimitMicrousdc = store.spendLimitMicrousdc
       /\ state'.expiresAt = store.expiresAt
       /\ state'.cumulativeSpendMicrousdc = store.cumulativeSpendMicrousdc
       /\ state'.pendingAttempts = store.pendingAttempts

\* What restore(wallet) does.
RestoreKeepsStored(wallet) ==
  /\ store' = store
  /\ ~last'.storeSaved
  /\ store = NoSession => last'.status = "NoStoredSession" /\ state' = state
  /\ (store # NoSession /\ store.payer # ToLowerCase(wallet)) =>
       last'.status = "DifferentPayer" /\ state' = state
  /\ (store # NoSession /\ store.payer = ToLowerCase(wallet)) =>
       last'.status = "ok" /\ state' = store

AttemptKeys ==
  {AttemptKey(state, c, r) : c \in StoreChallenges, r \in StoreRequests}

\* Where the attempt of a key stands: "pending" while pendingAttempts holds
\* it, "committed" once commitPayment has moved it, "absent" otherwise.
AttemptStatus(st, cs, key) ==
  IF key \in DOMAIN st.pendingAttempts THEN "pending"
  ELSE IF CountOf(cs.commits, key) > 0 THEN "committed"
  ELSE "absent"

AttemptMoves ==
  {<<"absent", "pending">>, <<"pending", "committed">>, <<"pending", "absent">>}

\* C22 (as claimed): an attempt goes from absent to pending, from pending to
\* committed or back to absent, and nowhere else; a committed attempt stays
\* committed, and the amount of one key is added to cumulativeSpendMicrousdc
\* at most once.
C22_CommittedIsFinal ==
  /\ [](\A k \in AttemptKeys : CountOf(calls.commits, k) <= 1)
  /\ [][\A k \in AttemptKeys :
          \/ AttemptStatus(state', calls', k) = AttemptStatus(state, calls, k)
          \/ <<AttemptStatus(state, calls, k), AttemptStatus(state', calls', k)>>
               \in AttemptMoves]_vars


(***************************************************************************)
(* Claims about the signing message                                        *)
(***************************************************************************)
\* The payments signForChallenge has produced and not yet given up: the
\* pending attempts and the payment the last call returned.
ProducedPayments ==
  {state.pendingAttempts[k] : k \in DOMAIN state.pendingAttempts}
  \cup (IF last.op = "signForChallenge" /\ last.payment # NoPayment
        THEN {last.payment} ELSE {})

\* The payment as the origin reads it from the request header.
OnTheWire(payment) == decodePaymentHeader(encodePaymentHeader(payment))

\* What the origin recovers from a payment: verifyMessage over the signing
\* message of the payment without its signature, lower-cased.
RecoveredAddress(payment) ==
  ToLowerCase(verifyMessage(buildPaymentSigningMessage(toUnsignedPayment(payment)),
                            payment.signature))

SignedMessageAgrees(payment) ==
  /\ buildPaymentSigningMessage(toUnsignedPayment(payment)) = payment.signature.message
  /\ RecoveredAddress(payment) = ToLowerCase(payment.payer)

\* C23: for every payment signForChallenge produced, the message the origin
\* verifies, buildPaymentSigningMessage(toUnsignedPayment(s)), is the message
\* the wallet signed, for the payment object itself and for the payment read
\* back from the request header, so the recovered address is the payer.
C23_OriginVerifiesSignedMessage ==
  \A p \in ProducedPayments :
    /\ SignedMessageAgrees(p)
    /\ SignedMessageAgrees(OnTheWire(p))
    /\ OnTheWire(p).signature = p.signature

\* Payments are pending for a challenge whose mac is undefined, which the
\* header does not carry, and for a challenge of the origin with its mac.
C23_Witness ==
  /\ \E p \in ProducedPayments :
       /\ "mac" \in DOMAIN p.challenge
       /\ p.challenge.mac = Undefined
       /\ OnTheWire(p) # p
  /\ \E p \in ProducedPayments :
       /\ "mac" \in DOMAIN p.challenge
       /\ verifyChallenge(p.challenge, config.challengeSecret)


(***************************************************************************)
(* Claims about the order of the checks of signForChallenge                *)
(***************************************************************************)
\* The outcome the stated order gives a call: each condition decides the
\* outcome when none of those before it holds.
OutcomeInOrder(st, challenge, request, t, status) ==
  LET sessionExpired == t >= st.expiresAt
      badVersion == challenge.version # ACE_PAYMENT_VERSION
      badCurrency == challenge.currency # USDC
      challengeExpired == challenge.expiresAt <= t
      rejected == badVersion \/ badCurrency \/ challengeExpired
      badMethod == challenge.method # ToUpperCase(request.method)
      badResource == challenge.resource # deriveResource(request.url)
      mismatch == badMethod \/ badResource
      pending == AttemptKey(st, challenge, request) \in DOMAIN st.pendingAttempts
      overLimit == challenge.amountMicrousdc > availableSpendMicrousdc(st)
      passed == ~sessionExpired /\ ~rejected /\ ~mismatch
  IN /\ sessionExpired => status = "SessionExpired"
     /\ (~sessionExpired /\ badVersion) => status = "UnsupportedVersion"
     /\ (~sessionExpired /\ ~badVersion /\ badCurrency) => status = "UnsupportedCurrency"
     /\ (~sessionExpired /\ ~badVersion /\ ~badCurrency /\ challengeExpired)
          => status = "ChallengeExpired"
     /\ (~sessionExpired /\ ~rejected /\ badMethod) => status = "MethodMismatch"
     /\ (~sessionExpired /\ ~rejected /\ ~badMethod /\ badResource)
          => status = "ResourceMismatch"
     /\ (passed /\ pending) => status = "Existing"
     /\ (passed /\ ~pending /\ overLimit) => status = "SpendLimitExceeded"
     /\ (passed /\ ~pending /\ ~overLimit) => status = "Signed"

\* C24: signForChallenge reports the first failing check in the order session
\* expired, challenge rejected (version, currency, expiry), method or resource
\* mismatch, spend limit exceeded; the lookup of a pending attempt comes after
\* the mismatch checks and before the spend limit, so a pending attempt is
\* returned even when the available spend is smaller than its amount.
C24_ChecksInOrder ==
  [][\A c \in OrderChallenges, r \in StoreRequests :
       SignForChallenge(c, r) => OutcomeInOrder(state, c, r, now, last'.status)]_vars

\* A pending attempt was returned while the available spend is below its amount.
C24_Witness ==
  /\ last.op = "signForChallenge"
  /\ last.status = "Existing"
  /\ last.payment.amountMicrousdc > availableSpendMicrousdc(state)


(***************************************************************************)
(* Claims about overlapping calls of signForChallenge                      *)
(***************************************************************************)
\* Two calls with the same challenge and request context.
SameAttempt(i, j) ==
  /\ calls.inflight[i].challenge = calls.inflight[j].challenge
  /\ calls.inflight[i].request = calls.inflight[j].request

ActivationKey(i) ==
  AttemptKey(state, calls.inflight[i].challenge, calls.inflight[i].request)

\* C25: of two signForChallenge calls with the same challenge and request,
\* the second entered while the first waits for the wallet or the store, the
\* wallet signs at most once for the key and both return the same payment.
C25_OverlappingRepeatSignsOnce ==
  \A i, j \in DOMAIN calls.inflight :
    (i < j /\ SameAttempt(i, j)) =>
      /\ CountOf(calls.signatures, ActivationKey(i)) <= 1
      /\ (calls.inflight[i].pc = "returned" /\ calls.inflight[j].pc = "returned")
           => calls.inflight[i].payment = calls.inflight[j].payment

\* C26: whatever the interleaving of signForChallenge calls for distinct
\* challenges, the cumulative spend plus the pending amounts stays within the
\* spend limit.
C26_OverlappingWithinLimit ==
  state.cumulativeSpendMicrousdc + pendingSpendMicrousdc(state) <= state.spendLimitMicrousdc

(***************************************************************************)
(* Claims about a failing store.save                                       *)
(***************************************************************************)
\* C27: every payment signForChallenge has returned, by a first signing or by
\* the idempotent short-circuit, has its idempotency key in the pending
\* attempts of the state last saved in the store, also when a save failed.
C27_ReturnedIsSaved ==
  \A i \in DOMAIN calls.inflight :
    calls.inflight[i].pc = "returned" =>
      calls.inflight[i].payment.idempotencyKey \in DOMAIN store.pendingAttempts


(***************************************************************************)
(* Claims about what an interceptor call leaves pending                    *)
(***************************************************************************)
\* C28: when an x402Fetch call in which signForChallenge returned a payment
\* has finished, by returning or by throwing, exactly one of commitPayment and
\* releasePayment was called and the payment's idempotency key is no longer
\* in pendingAttempts, whatever the retry response carried.
C28_SignedKeyLeavesPending ==
  (call.pc = "done" /\ call.signed # NoPayment) =>
    /\ call.commitCalls + call.releaseCalls = 1
    /\ call.signed.idempotencyKey \notin DOMAIN state.pendingAttempts


(***************************************************************************)
(* Claims about recovery after a crash                                     *)
(***************************************************************************)
\* An attempt that was pending when the process died is still pending.
Stranded ==
  \E p \in calls.crashed : p.idempotencyKey \in DOMAIN state.pendingAttempts

\* On the restored session the interceptor has signed for the request of an
\* attempt that was pending when the process died.
Reissued ==
  /\ call.signed # NoPayment
  /\ \E p \in calls.crashed : p.requestHash = call.signed.requestHash

\* C29: once the process died with an attempt pending, the session was
\* restored and the same request was issued again through the interceptor,
\* that attempt leaves pendingAttempts: it is gone when the call for the
\* request issued again has finished.
C29_CrashedAttemptLeaves == (Reissued /\ call.pc = "done") => ~Stranded


(***************************************************************************)
(* Claims about the request hash on both sides                             *)
(***************************************************************************)
\* C30: for every request sent through the interceptor, the requestHash in
\* the signed payment is the requestHash the origin derives for the retried
\* request, so the origin does not refuse with "requestHash mismatch" a
\* payment signed for its own challenge.
C30_RequestHashAgrees ==
  call.signed # NoPayment =>
    /\ call.signed.requestHash = originRequestHash(RetryRequest(call))
    /\ handlerError(RetryRequest(call), now) # "requestHash mismatch"


(***************************************************************************)
(* Claims about concurrent payments at the origin                          *)
(***************************************************************************)
\* The answer 200 with replayed=false.
PaidAnew(response) ==
  IF response.status = 200 THEN response.body.json.replayed = FALSE ELSE FALSE

\* No ledger.put is under way and the ledger file lacks none of the records
\* in memory.
LedgerFileComplete ==
  DOMAIN origin.inflight = {} => DOMAIN origin.records \subseteq DOMAIN origin.file.records

\* C31: whatever the interleaving of valid paid requests with distinct
\* idempotency keys, each ledger.put ends with the answer 200 replayed=false,
\* and once all have completed the ledger file holds the record of every key.
C31_ConcurrentPaymentsAnswered ==
  /\ [][\A k \in DOMAIN origin.inflight :
          OriginRename(k) => PaidAnew(origin'.reply.response)]_vars
  /\ []LedgerFileComplete


(***************************************************************************)
(* Claims about a 402 without a challenge                                  *)
(***************************************************************************)
\* The response body is JSON with a challenge of version ace-x402-v1.
BodyHoldsChallenge(response) ==
  IF "json" \notin DOMAIN response.body THEN FALSE
  ELSE IF "challenge" \notin DOMAIN response.body.json THEN FALSE
  ELSE response.body.json.challenge.version = ACE_PAYMENT_VERSION

\* The first response of the call is a 402.
FirstIs402 == IF call.first = NoResponse THEN FALSE ELSE call.first.status = 402

\* C32: when a 402 carries no ace-x402-v1 challenge, neither in a decodable
\* PAYMENT-REQUIRED header nor in its body, whatever the content type and the
\* content of the body, x402Fetch returns that 402 unchanged: it does not
\* throw, does not call signForChallenge and makes no second transport call;
\* a matching challenge in the header is used in preference to the body.
C32_NoChallengeReturns402 ==
  /\ (/\ FirstIs402
      /\ HeaderChallenge(call.first) = NoChallenge
      /\ ~BodyHoldsChallenge(call.first)) =>
        /\ call.pc = "done"
        /\ call.returned = call.first
        /\ call.thrown = "none"
        /\ call.signCalls = 0
        /\ call.fetchCalls = 1
  /\ (/\ FirstIs402
      /\ HeaderChallenge(call.first) # NoChallenge
      /\ call.challenge # NoChallenge) =>
        call.challenge = HeaderChallenge(call.first)


(***************************************************************************)
(* Claims about what the client has paid and the origin has recorded       *)
(***************************************************************************)
\* The keys of the origin's ledger records of the session's payer, and the
\* total of their amounts.
RecordedKeys == {k \in DOMAIN origin.records : origin.records[k].payer = state.payer}

RecordedSpend == SumAmounts(origin.records, RecordedKeys)

\* C33: with the session used only through the interceptor against the
\* origin, transport errors and lost responses included, the session's
\* cumulativeSpendMicrousdc never exceeds the total amount of the origin's
\* ledger records of its payer: a step that raises the cumulative spend
\* commits a key the origin has recorded.
C33_SpendWithinRecorded ==
  /\ [](state.cumulativeSpendMicrousdc <= RecordedSpend)
  /\ [][state'.cumulativeSpendMicrousdc > state.cumulativeSpendMicrousdc =>
          call'.commitKey \in RecordedKeys]_vars

\* C33 witness: the client has committed one payment, and the origin has
\* recorded another whose answer the client never got.
C33_Witness ==
  /\ state.cumulativeSpendMicrousdc > 0
  /\ state.cumulativeSpendMicrousdc < RecordedSpend
  /\ call.pc = "done"
  /\ call.thrown = "transport-2"
  /\ call.signed.idempotencyKey \in RecordedKeys
  /\ DOMAIN origin.inflight = {}

====
